---- MODULE Spec2Model ----
(***************************************************************************)
(* WhenFS: a FUSE filesystem whose backing store is a calendar.            *)
(*                                                                         *)
(* Layers, leaves first:                                                   *)
(*   calendar   - the remote service: a growing list of events             *)
(*   store.rs   - encoding, zip (split/zip), calendarize, CalStore          *)
(*   cache.rs   - WhenFSCache: inode -> chain entry -> object, root chain  *)
(*   fs.rs      - WhenFS: the FUSE callbacks                               *)
(*                                                                         *)
(* Strings of the program are TLA+ strings, cut and joined character by    *)
(* character.  Timestamps (SystemTime::now, Utc::now) are left out of the  *)
(* attribute block and of the event details.                               *)
(***************************************************************************)
EXTENDS Integers, Sequences, FiniteSets, TLC

VARIABLES
    phase,              \* position of the process (see the specifications)
    calendar,           \* the remote calendar: event i has id EventId(i)
    faults,             \* number of calendar failures injected so far
    ino_to_id,          \* WhenFSCache.ino_to_id
    id_to_obj,          \* WhenFSCache.id_to_obj
    inode_count,        \* WhenFSCache.inode_count
    root_event,         \* WhenFSCache.root_event
    file_handle_count,  \* WhenFS.file_handle_count
    reply,              \* the last operation, its arguments and its reply
    hist                \* history kept for the properties (not program state)

vars == <<phase, calendar, faults, ino_to_id, id_to_obj, inode_count,
          root_event, file_handle_count, reply, hist>>

(***************************************************************************)
(* Bounds of the model.                                                    *)
(***************************************************************************)
\* chunk size used in place of LIMITS.description (4096 in gcal.rs)
DescriptionLimit == 64
\* the calendar fails at most this many times in one behaviour
MaxFaults == 1
\* a fault is injected at the n-th calendar call of a handler, n <= MaxFailAt
MaxFailAt == 5
\* number of operations of one behaviour that change the cache or restart it
MaxSteps == 4
\* inodes handed to the cache when it is driven directly
MaxCacheIno == 2
\* longest data buffer written by one write call
MaxWrite == 2
\* largest offset of a read or a write
MaxOffset == 2
\* number of operations of one behaviour that change the mounted filesystem
MaxFsSteps == 3

\* budget values: no call of this handler fails (more calls than any handler
\* makes) / the calendar has failed
NoFault == MaxFailAt + 1000
Down == 0 - 1

(***************************************************************************)
(* Program constants.                                                      *)
(***************************************************************************)
FUSE_ROOT_ID == 1
MAX_NAME_LENGTH == 255
WELCOME == "WelcomeToWhenFS"
ROOT_EVENT_NAME == "root event"

(***************************************************************************)
(* Small helpers.                                                          *)
(***************************************************************************)
Max(a, b) == IF a >= b THEN a ELSE b
Min(a, b) == IF a <= b THEN a ELSE b
SetMax(S) == CHOOSE m \in S : \A x \in S : x <= m
SetMin(S) == CHOOSE m \in S : \A x \in S : m <= x
Last(s) == s[Len(s)]
Put(f, k, v) == [x \in (DOMAIN f) \cup {k} |-> IF x = k THEN v ELSE f[x]]
CharAt(s, i) == SubSeq(s, i, i)
\* let v = ..; In(v): the value is computed once and named by In's parameter
Let(v, In(_)) == In(v)

RECURSIVE SortedSeq(_)
SortedSeq(S) == IF S = {} THEN <<>>
                ELSE <<SetMin(S)>> \o SortedSeq(S \ {SetMin(S)})

(***************************************************************************)
(* Values.                                                                 *)
(*   FileAttr        [ino, size, kind, perm, nlink, uid, gid]              *)
(*   FileSystemObject [tag, attr, name, data, entries]: one record shape   *)
(*       for both variants; tag "File" uses data (bytes), tag "Dir" uses   *)
(*       entries, and the field of the other variant stays empty           *)
(*   DirectoryEntry  [ino, file_type, name]                                *)
(*   CalStoreEntry   [name, events]   an event of an entry is held by its  *)
(*                   id; its details are those the calendar holds for it   *)
(* A value handed to the store is tagged with its type:                    *)
(*   [T |-> "Obj", obj |-> object, map |-> <<>>]   or                      *)
(*   [T |-> "Map", obj |-> NoObject, map |-> ino_to_id]                    *)
(***************************************************************************)
RegularFile == "RegularFile"
Directory == "Directory"

NoAttr == [ino |-> 0, size |-> 0, kind |-> RegularFile, perm |-> 0, nlink |-> 0,
           uid |-> 0, gid |-> 0]
NoObject == [tag |-> "None", attr |-> NoAttr, name |-> "", data |-> <<>>,
             entries |-> {}]
FileObject(attr, name, data) ==
    [tag |-> "File", attr |-> attr, name |-> name, data |-> data, entries |-> {}]
DirectoryObject(attr, entries, name) ==
    [tag |-> "Dir", attr |-> attr, name |-> name, data |-> <<>>, entries |-> entries]

AsObj(o) == [T |-> "Obj", obj |-> o, map |-> <<>>]
AsMap(m) == [T |-> "Map", obj |-> NoObject, map |-> m]

\* HashSet<DirectoryEntry>::insert with Hash/PartialEq on ino alone: an entry
\* whose ino is already in the set is not inserted and the old one stays
insert_entry(entries, e) ==
    IF \E x \in entries : x.ino = e.ino THEN entries ELSE entries \cup {e}

get_entry_by_name(dir, name) == {e \in dir.entries : e.name = name}

(***************************************************************************)
(* mod encoding: a value <-> its text.  The text is a list of fields, each *)
(* closed by a separator; numbers are written in decimal.                  *)
(***************************************************************************)
FieldSep == ","

RECURSIVE join_fields(_)
join_fields(fs) ==
    IF fs = <<>> THEN "" ELSE Head(fs) \o FieldSep \o join_fields(Tail(fs))

\* the digits of the bytes, one after the other (built by halves)
RECURSIVE bytes_to_text(_)
bytes_to_text(data) ==
    IF Len(data) = 0 THEN ""
    ELSE IF Len(data) = 1 THEN ToString(data[1])
    ELSE LET h == Len(data) \div 2
         IN bytes_to_text(SubSeq(data, 1, h))
            \o bytes_to_text(SubSeq(data, h + 1, Len(data)))

kind_to_text(k) == IF k = Directory THEN "D" ELSE "F"

attr_fields(a) ==
    <<ToString(a.ino), ToString(a.size), ToString(a.perm), ToString(a.nlink),
      ToString(a.uid), ToString(a.gid)>>

RECURSIVE entries_fields(_, _)
entries_fields(entries, inos) ==
    IF inos = <<>> THEN <<>>
    ELSE LET e == CHOOSE x \in entries : x.ino = Head(inos)
         IN <<ToString(e.ino), kind_to_text(e.file_type), e.name>>
            \o entries_fields(entries, Tail(inos))

object_fields(o) ==
    IF o.tag = "File"
    THEN <<"F">> \o attr_fields(o.attr) \o <<o.name, bytes_to_text(o.data)>>
    ELSE <<"D">> \o attr_fields(o.attr)
         \o <<o.name, ToString(Cardinality(o.entries))>>
         \o entries_fields(o.entries, SortedSeq({e.ino : e \in o.entries}))

RECURSIVE map_fields(_, _)
map_fields(m, inos) ==
    IF inos = <<>> THEN <<>>
    ELSE LET entry == m[Head(inos)]
         IN <<ToString(Head(inos)), entry.name, ToString(Len(entry.events))>>
            \o entry.events \o map_fields(m, Tail(inos))

encode(item) ==
    IF item.T = "Obj" THEN join_fields(object_fields(item.obj))
    ELSE join_fields(<<"M", ToString(Cardinality(DOMAIN item.map))>>
                     \o map_fields(item.map, SortedSeq(DOMAIN item.map)))

\* the fields of a text; a text that does not end on a separator is malformed
split_fields(text) ==
    LET seps == SortedSeq({i \in 1..Len(text) : CharAt(text, i) = FieldSep})
        n == Len(seps)
    IN [ok |-> Len(text) = 0 \/ (n > 0 /\ seps[n] = Len(text)),
        fields |-> [k \in 1..n |->
                      SubSeq(text, IF k = 1 THEN 1 ELSE seps[k - 1] + 1,
                             seps[k] - 1)]]

Digits == <<"0", "1", "2", "3", "4", "5", "6", "7", "8", "9">>
is_digit(c) == \E d \in 1..10 : Digits[d] = c
digit_value(c) == (CHOOSE d \in 1..10 : Digits[d] = c) - 1
is_number(t) == Len(t) > 0 /\ \A i \in 1..Len(t) : is_digit(CharAt(t, i))
is_bytes(t) == \A i \in 1..Len(t) : is_digit(CharAt(t, i))

RECURSIVE to_number(_, _)
to_number(t, n) ==
    IF n = 0 THEN 0 ELSE to_number(t, n - 1) * 10 + digit_value(CharAt(t, n))

number(t) == to_number(t, Len(t))
text_to_bytes(t) == [i \in 1..Len(t) |-> digit_value(CharAt(t, i))]

DecodeError == [ok |-> FALSE, value |-> AsMap(<<>>)]

decode_attr(f, kind) ==
    [ino |-> number(f[2]), size |-> number(f[3]), kind |-> kind,
     perm |-> number(f[4]), nlink |-> number(f[5]),
     uid |-> number(f[6]), gid |-> number(f[7])]

decode_file(f) ==
    IF Len(f) = 9 /\ (\A i \in 2..7 : is_number(f[i])) /\ is_bytes(f[9])
    THEN [ok |-> TRUE,
          value |-> AsObj(FileObject(decode_attr(f, RegularFile), f[8],
                                     text_to_bytes(f[9])))]
    ELSE DecodeError

decode_dir(f) ==
    IF Len(f) >= 9 /\ (\A i \in 2..7 : is_number(f[i])) /\ is_number(f[9])
    THEN LET n == number(f[9])
         IN IF Len(f) = 9 + 3 * n
               /\ \A k \in 0..(n - 1) :
                     is_number(f[10 + 3 * k]) /\ f[11 + 3 * k] \in {"F", "D"}
            THEN [ok |-> TRUE,
                  value |-> AsObj(DirectoryObject(
                                decode_attr(f, Directory),
                                {[ino |-> number(f[10 + 3 * k]),
                                  file_type |-> IF f[11 + 3 * k] = "D"
                                                THEN Directory ELSE RegularFile,
                                  name |-> f[12 + 3 * k]] : k \in 0..(n - 1)},
                                f[8]))]
            ELSE DecodeError
    ELSE DecodeError

RECURSIVE decode_map_entries(_, _, _, _)
decode_map_entries(f, pos, left, acc) ==
    IF left = 0
    THEN IF pos = Len(f) + 1 THEN [ok |-> TRUE, value |-> AsMap(acc)]
         ELSE DecodeError
    ELSE IF pos + 2 <= Len(f) /\ is_number(f[pos]) /\ is_number(f[pos + 2])
         THEN LET k == number(f[pos + 2])
              IN IF pos + 2 + k <= Len(f)
                 THEN decode_map_entries(
                          f, pos + 3 + k, left - 1,
                          Put(acc, number(f[pos]),
                              [name |-> f[pos + 1],
                               events |-> SubSeq(f, pos + 3, pos + 2 + k)]))
                 ELSE DecodeError
         ELSE DecodeError

\* decode::<T>(text): T is "Obj" (FileSystemObject) or "Map" (the DashMap)
decode(text, T) ==
    LET s == split_fields(text)
        f == s.fields
    IN IF ~s.ok \/ Len(f) = 0 THEN DecodeError
       ELSE IF T = "Obj"
            THEN IF f[1] = "F" THEN decode_file(f)
                 ELSE IF f[1] = "D" THEN decode_dir(f)
                 ELSE DecodeError
            ELSE IF f[1] = "M" /\ Len(f) >= 2 /\ is_number(f[2])
                 THEN decode_map_entries(f, 3, number(f[2]), <<>>)
                 ELSE DecodeError

(***************************************************************************)
(* mod zip.                                                                *)
(***************************************************************************)
\* mutant of split: chunks_exact, which leaves out a shorter last chunk
RECURSIVE split_whole_chunks(_, _)
split_whole_chunks(data, chunk_size) ==
    IF Len(data) < chunk_size THEN <<>>
    ELSE <<SubSeq(data, 1, chunk_size)>>
         \o split_whole_chunks(SubSeq(data, chunk_size + 1, Len(data)), chunk_size)

RECURSIVE split(_, _)
split(data, chunk_size) ==
    IF Len(data) = 0 THEN <<>>
    ELSE <<SubSeq(data, 1, Min(chunk_size, Len(data)))>>
         \o split(SubSeq(data, Min(chunk_size, Len(data)) + 1, Len(data)), chunk_size)

RECURSIVE zip(_)
zip(strings) == IF strings = <<>> THEN "" ELSE Head(strings) \o zip(Tail(strings))

(***************************************************************************)
(* mod calendarize.                                                        *)
(***************************************************************************)
calendarize(data) ==
    [i \in 1..Len(data) |->
        [summary |-> "", description |-> data[i], location |-> ToString(i - 1)]]

uncalendarize(events) == [i \in 1..Len(events) |-> events[i].description]

(***************************************************************************)
(* The calendar client.  The calendar assigns event i the id EventId(i).   *)
(* budget is the number of calendar calls that still succeed before the    *)
(* injected failure (NoFault: none fails).                                 *)
(***************************************************************************)
EventId(i) == "e" \o ToString(i)
EventIds(cal) == {EventId(i) : i \in 1..Len(cal)}
Spend(budget) == budget - 1
Refused(budget) == budget = 0 \/ budget = Down

\* POST: the calendar stores the details under a fresh id and returns the event
create_event(cal, details) ==
    [calendar |-> Append(cal, details),
     event |-> [id |-> EventId(Len(cal) + 1), details |-> details]]

\* GET: the event as the calendar holds it
get_event_by_id(cal, id) ==
    LET i == CHOOSE j \in 1..Len(cal) : EventId(j) = id
    IN [id |-> id, details |-> cal[i]]

(***************************************************************************)
(* CalStore.  Results carry the calendar and the budget left.              *)
(* status: "ok", "err" (a CalStoreError) or "panic".                       *)
(***************************************************************************)
\* mutant of upload_loop: prev stays the sentinel, so every event's summary
\* is the sentinel
RECURSIVE upload_loop_keeps_prev(_, _, _, _, _)
upload_loop_keeps_prev(cal, budget, details, prev, events) ==
    IF details = <<>>
    THEN [status |-> "ok", calendar |-> cal, budget |-> budget, events |-> events]
    ELSE IF Refused(budget)
         THEN [status |-> "err", calendar |-> cal, budget |-> Down, events |-> events]
         ELSE LET detail == [Head(details) EXCEPT !.summary = prev]
                  made == create_event(cal, detail)
              IN upload_loop_keeps_prev(made.calendar, Spend(budget), Tail(details),
                                        prev, Append(events, made.event.id))

RECURSIVE upload_loop(_, _, _, _, _)
upload_loop(cal, budget, details, prev, events) ==
    IF details = <<>>
    THEN [status |-> "ok", calendar |-> cal, budget |-> budget, events |-> events]
    ELSE IF Refused(budget)
         THEN [status |-> "err", calendar |-> cal, budget |-> Down, events |-> events]
         ELSE LET detail == [Head(details) EXCEPT !.summary = prev]
                  made == create_event(cal, detail)
              IN upload_loop(made.calendar, Spend(budget), Tail(details),
                             made.event.id, Append(events, made.event.id))

upload(cal, budget, details, sentinel) ==
    upload_loop(cal, budget, details, sentinel, <<>>)

\* a fetch of an id the calendar does not hold is answered by an error body,
\* which ApiAction::handle unwraps: a panic
RECURSIVE download_loop_push_back(_, _, _, _, _)
download_loop_push_back(cal, budget, id, sentinel, events) ==
    IF id = sentinel
    THEN [status |-> "ok", budget |-> budget, events |-> events]
    ELSE IF Refused(budget)
         THEN [status |-> "err", budget |-> Down, events |-> events]
         ELSE IF id \notin EventIds(cal)
              THEN [status |-> "panic", budget |-> budget, events |-> events]
              ELSE LET event == get_event_by_id(cal, id)
                   IN download_loop_push_back(cal, Spend(budget),
                                              event.details.summary, sentinel,
                                              Append(events, event))

RECURSIVE download_loop(_, _, _, _, _)
download_loop(cal, budget, id, sentinel, events) ==
    IF id = sentinel
    THEN [status |-> "ok", budget |-> budget, events |-> events]
    ELSE IF Refused(budget)
         THEN [status |-> "err", budget |-> Down, events |-> events]
         ELSE IF id \notin EventIds(cal)
              THEN [status |-> "panic", budget |-> budget, events |-> events]
              ELSE LET event == get_event_by_id(cal, id)
                   IN download_loop(cal, Spend(budget), event.details.summary,
                                    sentinel, <<event>> \o events)

download(cal, budget, tail_event_id, sentinel) ==
    download_loop(cal, budget, tail_event_id, sentinel, <<>>)

store(cal, budget, item, name) ==
    LET encoded == encode(item)
        chunks == split(encoded, DescriptionLimit)
        calendarized == calendarize(chunks)
    IN Let(upload(cal, budget, calendarized, name), LAMBDA up :
       [status |-> up.status, calendar |-> up.calendar, budget |-> up.budget,
        entry |-> [name |-> name, events |-> up.events]])

retrieve(cal, budget, entry, T) ==
    IF entry.events = <<>>
    THEN [status |-> "panic", budget |-> budget, value |-> AsMap(<<>>)]
    ELSE Let(download(cal, budget, Last(entry.events), entry.name), LAMBDA down :
         IF down.status # "ok"
         THEN [status |-> down.status, budget |-> down.budget, value |-> AsMap(<<>>)]
         ELSE LET details == [i \in 1..Len(down.events) |-> down.events[i].details]
                  zipped == zip(uncalendarize(details))
              IN Let(decode(zipped, T), LAMBDA decoded :
                 IF decoded.ok
                 THEN [status |-> "ok", budget |-> down.budget,
                       value |-> decoded.value]
                 ELSE [status |-> "err", budget |-> down.budget,
                       value |-> AsMap(<<>>)]))

\* mutant of update: the old chain's tail event is emptied once the new chain
\* is written
update_clearing_old(cal, budget, old, new) ==
    LET i == CHOOSE j \in 1..Len(cal) : EventId(j) = Last(old.events)
    IN Let(store(cal, budget, new, old.name), LAMBDA r :
       IF r.status = "ok"
       THEN [r EXCEPT !.calendar = [r.calendar EXCEPT ![i].description = ""]]
       ELSE r)

update(cal, budget, old, new) == store(cal, budget, new, old.name)

\* mutant of get_raw_id: the id of the first event of the chain
get_raw_id_first(entry) == Head(entry.events)

get_raw_id(entry) == Last(entry.events)

(***************************************************************************)
(* WhenFSCache.  A cache value is the record of its four fields; results   *)
(* carry the cache, the calendar and the budget left.                      *)
(***************************************************************************)
Cache(map, objs, count, root) ==
    [ino_to_id |-> map, id_to_obj |-> objs, inode_count |-> count,
     root_event |-> root]

NoEntry == [name |-> "", events |-> <<>>]
NoCacheValue == Cache(<<>>, <<>>, 0, NoEntry)

WhenFSCache_new(cal, budget) ==
    Let(store(cal, budget, AsMap(<<>>), ROOT_EVENT_NAME), LAMBDA stored :
       [status |-> stored.status, calendar |-> stored.calendar,
        budget |-> stored.budget,
        cache |-> IF stored.status = "ok"
                  THEN Cache(<<>>, <<>>, FUSE_ROOT_ID + 1, stored.entry)
                  ELSE NoCacheValue])

recover_no_increment(cal, budget, root_id) ==
    Let(retrieve(cal, budget, root_id, "Map"), LAMBDA got :
       IF got.status # "ok"
       THEN [status |-> got.status, budget |-> got.budget, cache |-> NoCacheValue]
       ELSE IF DOMAIN got.value.map = {}
            THEN [status |-> "panic", budget |-> got.budget, cache |-> NoCacheValue]
            ELSE [status |-> "ok", budget |-> got.budget,
                  cache |-> Cache(got.value.map, <<>>,
                                  SetMax(DOMAIN got.value.map), root_id)])

\* .max().expect(..) panics on a mapping without inodes
recover(cal, budget, root_id) ==
    Let(retrieve(cal, budget, root_id, "Map"), LAMBDA got :
       IF got.status # "ok"
       THEN [status |-> got.status, budget |-> got.budget, cache |-> NoCacheValue]
       ELSE IF DOMAIN got.value.map = {}
            THEN [status |-> "panic", budget |-> got.budget, cache |-> NoCacheValue]
            ELSE [status |-> "ok", budget |-> got.budget,
                  cache |-> Cache(got.value.map, <<>>,
                                  SetMax(DOMAIN got.value.map) + 1, root_id)])

\* mutant of get: the retrieved object is returned and not put in the table
get_unpublished(c, cal, budget, ino) ==
    IF ino \in DOMAIN c.ino_to_id
    THEN LET id == c.ino_to_id[ino]
         IN IF id \in DOMAIN c.id_to_obj
            THEN [status |-> "ok", budget |-> budget, cache |-> c, found |-> TRUE,
                  obj |-> c.id_to_obj[id]]
            ELSE Let(retrieve(cal, budget, id, "Obj"), LAMBDA got :
                 IF got.status = "ok"
                 THEN [status |-> "ok", budget |-> got.budget, cache |-> c,
                       found |-> TRUE, obj |-> got.value.obj]
                 ELSE [status |-> got.status, budget |-> got.budget, cache |-> c,
                       found |-> FALSE, obj |-> NoObject])
    ELSE [status |-> "ok", budget |-> budget, cache |-> c, found |-> FALSE,
          obj |-> NoObject]

\* found: the Option is Some; obj: the object behind the handle
get(c, cal, budget, ino) ==
    IF ino \in DOMAIN c.ino_to_id
    THEN LET id == c.ino_to_id[ino]
         IN IF id \in DOMAIN c.id_to_obj
            THEN [status |-> "ok", budget |-> budget, cache |-> c, found |-> TRUE,
                  obj |-> c.id_to_obj[id]]
            ELSE Let(retrieve(cal, budget, id, "Obj"), LAMBDA got :
                 IF got.status = "ok"
                 THEN [status |-> "ok", budget |-> got.budget,
                       cache |-> [c EXCEPT !.id_to_obj =
                                     Put(c.id_to_obj, id, got.value.obj)],
                       found |-> TRUE, obj |-> got.value.obj]
                 ELSE [status |-> got.status, budget |-> got.budget, cache |-> c,
                       found |-> FALSE, obj |-> NoObject])
    ELSE [status |-> "ok", budget |-> budget, cache |-> c, found |-> FALSE,
          obj |-> NoObject]

\* mutants of insert: the root is rewritten from the old mapping; an inode
\* already mapped keeps its old chain; the new root chain is not adopted
insert_with(c, cal, budget, ino, item, variant) ==
    Let(store(cal, budget, AsObj(item), item.name), LAMBDA stored :
       IF stored.status # "ok"
       THEN [status |-> "err", calendar |-> stored.calendar,
             budget |-> stored.budget, cache |-> c]
       ELSE LET id == stored.entry
                c1 == [c EXCEPT !.ino_to_id =
                                   IF variant = "keep_old_id" /\ ino \in DOMAIN c.ino_to_id
                                   THEN c.ino_to_id
                                   ELSE Put(c.ino_to_id, ino, id),
                                !.id_to_obj = Put(c.id_to_obj, id, item)]
            IN Let(update(stored.calendar, stored.budget, c.root_event,
                          AsMap(IF variant = "root_first" THEN c.ino_to_id
                                ELSE c1.ino_to_id)), LAMBDA new_block :
               IF new_block.status # "ok"
               THEN [status |-> "err", calendar |-> new_block.calendar,
                     budget |-> new_block.budget, cache |-> c1]
               ELSE [status |-> "ok", calendar |-> new_block.calendar,
                     budget |-> new_block.budget,
                     cache |-> IF variant = "keep_root" THEN c1
                               ELSE [c1 EXCEPT !.root_event = new_block.entry]]))

insert_root_first(c, cal, budget, ino, item) ==
    insert_with(c, cal, budget, ino, item, "root_first")
insert_keep_old_id(c, cal, budget, ino, item) ==
    insert_with(c, cal, budget, ino, item, "keep_old_id")
insert_keep_root(c, cal, budget, ino, item) ==
    insert_with(c, cal, budget, ino, item, "keep_root")

\* mutant of insert: a failed root rewrite is logged and not returned
insert_swallowing(c, cal, budget, ino, item) ==
    Let(insert_with(c, cal, budget, ino, item, "plain"), LAMBDA r :
        IF r.status = "err" /\ r.cache # c THEN [r EXCEPT !.status = "ok"] ELSE r)

insert(c, cal, budget, ino, item) ==
    Let(store(cal, budget, AsObj(item), item.name), LAMBDA stored :
       IF stored.status # "ok"
       THEN [status |-> "err", calendar |-> stored.calendar,
             budget |-> stored.budget, cache |-> c]
       ELSE LET id == stored.entry
                c1 == [c EXCEPT !.ino_to_id = Put(c.ino_to_id, ino, id),
                                !.id_to_obj = Put(c.id_to_obj, id, item)]
            IN Let(update(stored.calendar, stored.budget, c.root_event,
                          AsMap(c1.ino_to_id)), LAMBDA new_block :
               IF new_block.status # "ok"
               THEN [status |-> "err", calendar |-> new_block.calendar,
                     budget |-> new_block.budget, cache |-> c1]
               ELSE [status |-> "ok", calendar |-> new_block.calendar,
                     budget |-> new_block.budget,
                     cache |-> [c1 EXCEPT !.root_event = new_block.entry]]))

\* mutant of new_inode: the counter is read and not advanced
new_inode_load(c) == [ino |-> c.inode_count, cache |-> c]

\* fetch_add: the value before the increment is returned
new_inode(c) ==
    [ino |-> c.inode_count, cache |-> [c EXCEPT !.inode_count = c.inode_count + 1]]

CalendarId == "cal"
get_recovery_id(c) == [cal_id |-> CalendarId, root_id |-> get_raw_id(c.root_event)]

\* main: the entry recover is given holds the one event named by --root-event
root_entry_of(root_event_id) == [name |-> ROOT_EVENT_NAME, events |-> <<root_event_id>>]

(***************************************************************************)
(* Fault injection: a handler runs with a budget of calendar calls.        *)
(***************************************************************************)
\* number of calendar calls a handler made when it ran with budget NoFault
CallsOf(r) == NoFault - r.budget
\* the budgets a handler that makes `calls` calls is run with: no failure, or
\* the failure of its n-th call
Budgets(calls) ==
    {NoFault} \cup (IF faults < MaxFaults THEN 0..(Min(calls, MaxFailAt) - 1) ELSE {})
FaultsAfter(budget) == IF budget = Down THEN faults + 1 ELSE faults

(***************************************************************************)
(* SpecStore: the block store alone.  A value and a name are drawn, the    *)
(* value is stored and the returned entry is retrieved.                    *)
(***************************************************************************)
StoreAttr(kind, size) ==
    [ino |-> 3, size |-> size, kind |-> kind, perm |-> 420, nlink |-> 1,
     uid |-> 1, gid |-> 1]

StoreBytes == <<1, 2, 0, 1, 2, 0, 1>>

StoreItems ==
    {AsObj(FileObject(StoreAttr(RegularFile, n), "a",
                      [i \in 1..n |-> StoreBytes[1 + (i % 7)]]))
        : n \in {0, 43, 44, 45, 107, 108}}
    \cup {AsObj(FileObject(StoreAttr(RegularFile, n), "e2",
                            [i \in 1..n |-> StoreBytes[1 + (i % 7)]]))
            : n \in {0, 107}}
    \cup {AsObj(DirectoryObject(
                  StoreAttr(Directory, 0),
                  {[ino |-> 3, file_type |-> Directory, name |-> "."],
                   [ino |-> 1, file_type |-> Directory, name |-> ".."]},
                  "d"))}
    \cup {AsMap(<<>>),
          AsMap(Put(<<>>, 1, [name |-> "root event", events |-> <<"e2", "e3">>])),
          AsMap(Put(Put(<<>>, 1, [name |-> "root event", events |-> <<"e2">>]),
                    4, [name |-> "a", events |-> <<"e7", "e8", "e9">>]))}

StoreNames == {"a", "root event", WELCOME, "e1", "e2", "e3"}

JunkEvent == [summary |-> "x", description |-> "junk", location |-> "0"]

\* the cache held by the variables, and its replacement by a cache value
CacheNow == Cache(ino_to_id, id_to_obj, inode_count, root_event)
SetCache(c) ==
    /\ ino_to_id' = c.ino_to_id
    /\ id_to_obj' = c.id_to_obj
    /\ inode_count' = c.inode_count
    /\ root_event' = c.root_event

NoCache ==
    /\ ino_to_id = <<>>
    /\ id_to_obj = <<>>
    /\ inode_count = 0
    /\ root_event = NoEntry
    /\ file_handle_count = 0

(***************************************************************************)
(* History kept for the properties.                                        *)
(*   roots   every root id the cache has held when an operation returned,  *)
(*           with the mapping its chain decoded to at that time            *)
(*   issued  the values new_inode returned in this process, in order, each *)
(*           with whether it was then a key of ino_to_id                   *)
(*   floor   the largest inode of the mapping this process recovered       *)
(*   failed  number of inserts of this process that returned an error      *)
(*   steps   number of operations so far that count against MaxSteps       *)
(*   handles the (inode, file handle) pairs create returned in this process *)
(***************************************************************************)
NoHist == [roots |-> {}, issued |-> <<>>, floor |-> 0, failed |-> 0, steps |-> 0,
           handles |-> {}]

decoded_root(cal, root_id) ==
    retrieve(cal, NoFault, root_entry_of(root_id), "Map")

Published(h, cal, c) ==
    LET id == get_recovery_id(c).root_id
    IN Let(decoded_root(cal, id), LAMBDA got :
       [h EXCEPT !.roots = h.roots \cup
            {[id |-> id, status |-> got.status, map |-> got.value.map]}])

Issued(h, c, ino) ==
    [h EXCEPT !.issued = Append(h.issued,
                                [ino |-> ino, clash |-> ino \in DOMAIN c.ino_to_id])]

NewProcess(h, floor) ==
    [h EXCEPT !.issued = <<>>, !.floor = floor, !.failed = 0, !.handles = {}]

Stepped(h) == [h EXCEPT !.steps = h.steps + 1]

StoreInit ==
    /\ phase = "store"
    /\ calendar \in {<<>>, <<JunkEvent>>}
    /\ faults = 0
    /\ NoCache
    /\ \E item \in StoreItems, name \in StoreNames :
          reply = [op |-> "input", item |-> item, name |-> name]
    /\ hist = NoHist

StoreItem ==
    /\ phase = "store"
    /\ reply.op = "input"
    /\ \E budget \in Budgets(CallsOf(store(calendar, NoFault, reply.item, reply.name))) :
          LET r == store(calendar, budget, reply.item, reply.name)
          IN /\ calendar' = r.calendar
             /\ faults' = FaultsAfter(r.budget)
             /\ reply' = [op |-> "store", item |-> reply.item, name |-> reply.name,
                          status |-> r.status, entry |-> r.entry]
    /\ UNCHANGED <<phase, ino_to_id, id_to_obj, inode_count, root_event,
                   file_handle_count, hist>>

RetrieveEntry ==
    /\ phase = "store"
    /\ reply.op = "store"
    /\ reply.status = "ok"
    /\ \E budget \in Budgets(CallsOf(retrieve(calendar, NoFault, reply.entry,
                                                reply.item.T))) :
          LET r == retrieve(calendar, budget, reply.entry, reply.item.T)
          IN /\ faults' = FaultsAfter(r.budget)
             /\ reply' = [op |-> "retrieve", item |-> reply.item,
                          name |-> reply.name, entry |-> reply.entry,
                          faulted |-> r.budget = Down,
                          result |-> [status |-> r.status, value |-> r.value]]
    /\ UNCHANGED <<phase, calendar, ino_to_id, id_to_obj, inode_count, root_event,
                   file_handle_count, hist>>

StoreNext == StoreItem \/ RetrieveEntry

SpecStore == StoreInit /\ [][StoreNext]_vars

(***************************************************************************)
(* C1: for every value and every name that is no event id of the calendar, *)
(* retrieve(store(v, name)) succeeds and yields v, for one chunk or many,  *)
(* when no calendar call of the retrieval fails.                           *)
(***************************************************************************)
C1_StoreRetrieveRoundTrip ==
    (/\ reply.op = "retrieve"
     /\ reply.name \notin EventIds(calendar)
     /\ ~reply.faulted)
    => /\ reply.result.status = "ok"
       /\ reply.result.value = reply.item

C1_Witness ==
    /\ reply.op = "retrieve"
    /\ reply.name \notin EventIds(calendar)
    /\ Len(reply.entry.events) >= 2
    /\ reply.result.status = "ok"
    /\ reply.result.value = reply.item

(***************************************************************************)
(* SpecCache: the cache driven directly through new, recover, get, insert  *)
(* and new_inode.  phase: "c_start" (no cache yet), "c_ready", "c_dead"    *)
(* (construction failed or panicked; a new process may recover).           *)
(***************************************************************************)
CacheInos == 1..MaxCacheIno

CacheAttr(ino, kind, size) ==
    [ino |-> ino, size |-> size, kind |-> kind, perm |-> 420, nlink |-> 1,
     uid |-> 1, gid |-> 1]

CacheObjects(ino) ==
    {FileObject(CacheAttr(ino, RegularFile, 2), "a", <<1, 2>>),
     DirectoryObject(CacheAttr(ino, Directory, 0),
                     {[ino |-> ino, file_type |-> Directory, name |-> "."]}, "d")}

CacheInit ==
    /\ phase = "c_start"
    /\ calendar = <<>>
    /\ faults = 0
    /\ NoCache
    /\ reply = [op |-> "none"]
    /\ hist = NoHist

CNew ==
    /\ phase = "c_start"
    /\ \E budget \in Budgets(CallsOf(WhenFSCache_new(calendar, NoFault))) :
          LET r == WhenFSCache_new(calendar, budget)
          IN /\ calendar' = r.calendar
             /\ faults' = FaultsAfter(r.budget)
             /\ SetCache(r.cache)
             /\ phase' = IF r.status = "ok" THEN "c_ready" ELSE "c_dead"
             /\ reply' = [op |-> "new", status |-> r.status]
             /\ hist' = IF r.status = "ok" THEN Published(hist, r.calendar, r.cache)
                        ELSE hist
    /\ UNCHANGED file_handle_count

CRecover ==
    /\ phase \in {"c_ready", "c_dead"}
    /\ hist.steps < MaxSteps
    /\ \E root \in hist.roots :
        \E budget \in Budgets(CallsOf(recover(calendar, NoFault,
                                               root_entry_of(root.id)))) :
          LET r == recover(calendar, budget, root_entry_of(root.id))
          IN /\ faults' = FaultsAfter(r.budget)
             /\ SetCache(r.cache)
             /\ phase' = IF r.status = "ok" THEN "c_ready" ELSE "c_dead"
             /\ reply' = [op |-> "recover", status |-> r.status, root |-> root.id]
             /\ hist' = Stepped(NewProcess(hist,
                                            IF r.status = "ok"
                                            THEN SetMax(DOMAIN root.map)
                                            ELSE 0))
    /\ UNCHANGED <<calendar, file_handle_count>>

CInsert ==
    /\ phase = "c_ready"
    /\ hist.steps < MaxSteps
    /\ \E ino \in CacheInos :
        \E item \in CacheObjects(ino) :
        \E budget \in Budgets(CallsOf(insert(CacheNow, calendar, NoFault, ino, item))) :
          LET r == insert(CacheNow, calendar, budget, ino, item)
          IN /\ calendar' = r.calendar
             /\ faults' = FaultsAfter(r.budget)
             /\ SetCache(r.cache)
             /\ reply' = [op |-> "insert", status |-> r.status, ino |-> ino,
                          item |-> item]
             /\ hist' = LET h == Stepped(Published(hist, r.calendar, r.cache))
                        IN IF r.status = "ok" THEN h
                           ELSE [h EXCEPT !.failed = h.failed + 1]
    /\ UNCHANGED <<phase, file_handle_count>>

CGet ==
    /\ phase = "c_ready"
    /\ \E ino \in CacheInos \cup {MaxCacheIno + 1} :
        \E budget \in Budgets(CallsOf(get(CacheNow, calendar, NoFault, ino))) :
          LET r == get(CacheNow, calendar, budget, ino)
          IN /\ faults' = FaultsAfter(r.budget)
             /\ SetCache(r.cache)
             /\ phase' = IF r.status = "panic" THEN "c_dead" ELSE phase
             /\ reply' = [op |-> "get", status |-> r.status, ino |-> ino,
                          found |-> r.found, item |-> r.obj]
    /\ UNCHANGED <<calendar, file_handle_count, hist>>

CNewInode ==
    /\ phase = "c_ready"
    /\ hist.steps < MaxSteps
    /\ LET r == new_inode(CacheNow)
       IN /\ SetCache(r.cache)
          /\ reply' = [op |-> "new_inode", status |-> "ok", ino |-> r.ino]
          /\ hist' = Stepped(Issued(hist, CacheNow, r.ino))
    /\ UNCHANGED <<phase, calendar, faults, file_handle_count>>

CacheNext == CNew \/ CRecover \/ CInsert \/ CGet \/ CNewInode

SpecCache == CacheInit /\ [][CacheNext]_vars

(***************************************************************************)
(* Properties of the cache (SpecCache).                                    *)
(***************************************************************************)
InsertReturnedOk == reply.op = "insert" /\ reply.status = "ok"

\* C2: after every successful insert, also one that follows failed inserts,
\* the root chain named by get_recovery_id() decodes to a mapping identical to
\* ino_to_id.
C2_RootDecodesToMap ==
    InsertReturnedOk
    => LET got == decoded_root(calendar, get_recovery_id(CacheNow).root_id)
       IN got.status = "ok" /\ got.value.map = ino_to_id

C2_Witness ==
    /\ InsertReturnedOk
    /\ hist.failed >= 1
    /\ Cardinality(DOMAIN ino_to_id) >= 2
    /\ decoded_root(calendar, get_recovery_id(CacheNow).root_id).value.map = ino_to_id

\* what get(ino) returns in the current state
GetNow(ino) == get(CacheNow, calendar, NoFault, ino)
\* what get(ino) returns in the state a step leads to
GetNext(ino) == get(CacheNow', calendar', NoFault, ino)

\* C3: after a successful insert(ino, obj), get(ino) returns an object equal
\* to obj; it keeps returning it until the next insert for the same ino, and
\* an insert leaves what get returns for every other inode unchanged.
C3_Step ==
    (phase = "c_ready" /\ phase' = "c_ready" /\ reply'.op # "recover")
    => /\ (reply'.op = "insert" /\ reply'.status = "ok")
          => /\ GetNext(reply'.ino).found
             /\ GetNext(reply'.ino).obj = reply'.item
       /\ \A j \in DOMAIN ino_to_id :
             \/ reply'.op = "insert" /\ reply'.ino = j
             \/ /\ GetNext(j).status = GetNow(j).status
                /\ GetNext(j).found = GetNow(j).found
                /\ GetNext(j).obj = GetNow(j).obj

C3_GetReturnsInserted == [][C3_Step]_vars

C3_Witness ==
    /\ InsertReturnedOk
    /\ DOMAIN ino_to_id = CacheInos
    /\ hist.steps >= 3
    /\ GetNow(reply.ino).obj = reply.item
    /\ \E j \in DOMAIN ino_to_id : j # reply.ino /\ GetNow(j).obj # reply.item

\* C6: the store only adds events to the calendar and changes none, so every
\* root id the cache has held stays retrievable and decodes to the mapping it
\* decoded to when it was current, whatever inserts succeed or fail later.
C6_RootsKept ==
    \A p \in hist.roots :
        LET got == decoded_root(calendar, p.id)
        IN got.status = "ok" /\ p.status = "ok" /\ got.value.map = p.map

C6_EventsKept ==
    /\ Len(calendar') >= Len(calendar)
    /\ \A i \in 1..Len(calendar) : calendar'[i] = calendar[i]

C6_OldRootsStayRetrievable == [](C6_RootsKept) /\ [][C6_EventsKept]_vars

C6_Witness ==
    /\ Cardinality(hist.roots) >= 3
    /\ hist.failed >= 1
    /\ InsertReturnedOk
    /\ C6_RootsKept

\* C7: every successful insert replaces the root chain by a freshly uploaded
\* one: the tail id of the recovery id differs from the tail id before the
\* insert and from the id of every event created before it.
C7_Step ==
    (phase = "c_ready" /\ reply'.op = "insert" /\ reply'.status = "ok")
    => /\ get_recovery_id(CacheNow)'.root_id # get_recovery_id(CacheNow).root_id
       /\ get_recovery_id(CacheNow)'.root_id \notin EventIds(calendar)

C7_FreshRootPerInsert == [][C7_Step]_vars

C7_Witness ==
    /\ InsertReturnedOk
    /\ hist.steps >= 2
    /\ get_recovery_id(CacheNow).root_id = EventId(Len(calendar))

\* C9: after recover(root_id) the inode counter is the largest inode of the
\* recovered mapping plus one, and every inode new_inode returns afterwards
\* is greater than every inode of the recovered mapping.
C9_CounterAfterRecover ==
    /\ (reply.op = "recover" /\ reply.status = "ok")
       => \E p \in hist.roots :
             /\ p.id = reply.root
             /\ ino_to_id = p.map
             /\ inode_count = SetMax(DOMAIN p.map) + 1
    /\ hist.floor > 0
       => \A k \in 1..Len(hist.issued) : hist.issued[k].ino > hist.floor

C9_Witness ==
    /\ reply.op = "new_inode"
    /\ hist.floor > 0
    /\ reply.ino = hist.floor + 1

(***************************************************************************)
(* WhenFS: the FUSE adapter.  A filesystem value is the cache and the      *)
(* handle counter.  A callback returns the filesystem, the calendar, the   *)
(* budget left, what it replied (out) and the inodes new_inode gave it.    *)
(* errno "OK" is a successful reply; "PANIC" and "HANG" are no reply at    *)
(* all: the callback panicked or blocks forever.                           *)
(***************************************************************************)
FileHandle(seq, read, write) == [seq |-> seq, read |-> read, write |-> write]
NoHandle == FileHandle(0, FALSE, FALSE)

\* what a callback was asked and what it replied; the fields a callback does
\* not use keep these values
Out(op, errno) ==
    [op |-> op, errno |-> errno, quiet |-> FALSE, ino |-> 0, parent |-> 0,
     name |-> "", offset |-> 0, size |-> 0, data |-> <<>>, text |-> "",
     attr |-> NoAttr, fh |-> NoHandle, written |-> 0,
     req |-> [uid |-> 0 - 1, gid |-> 0 - 1], mask |-> 0, mode |-> 0, flags |-> 0,
     uid |-> 0 - 1, gid |-> 0 - 1, entries |-> <<>>, order |-> <<>>, room |-> 0]

Done(fs, cal, budget, out, issued) ==
    [fs |-> fs, calendar |-> cal, budget |-> budget, out |-> out, issued |-> issued]

Fs(c, count) == [cache |-> c, file_handle_count |-> count]
WithCache(fs, c) == [fs EXCEPT !.cache = c]

\* libc
None == 0 - 1
O_RDONLY == 0
O_WRONLY == 1
O_RDWR == 2
O_ACCMODE == 3
S_IFMT == 61440
S_IFREG == 32768
S_IFDIR == 16384
S_IFLNK == 10 * 4096
S_ISUID == 2048
S_ISGID == 1024
HasBit(n, bit) == (n \div bit) % 2 = 1
ClearBit(n, bit) == IF HasBit(n, bit) THEN n - bit ELSE n
AnyExecBit(perm) == HasBit(perm, 64) \/ HasBit(perm, 8) \/ HasBit(perm, 1)

WELCOME_SIZE == 1024
ROOT_PERM == 511
WELCOME_PERM == 292

\* mutant of root_dir_obj: the root directory is seeded with "." alone
root_dir_obj_self_only ==
    DirectoryObject(
        [ino |-> FUSE_ROOT_ID, size |-> 0, kind |-> Directory, perm |-> ROOT_PERM,
         nlink |-> 2, uid |-> 0, gid |-> 0],
        insert_entry({}, [ino |-> FUSE_ROOT_ID, file_type |-> Directory,
                          name |-> "."]),
        ROOT_EVENT_NAME)

root_dir_obj ==
    DirectoryObject(
        [ino |-> FUSE_ROOT_ID, size |-> 0, kind |-> Directory, perm |-> ROOT_PERM,
         nlink |-> 2, uid |-> 0, gid |-> 0],
        insert_entry(
            insert_entry({}, [ino |-> FUSE_ROOT_ID, file_type |-> Directory,
                              name |-> "."]),
            [ino |-> FUSE_ROOT_ID + 1, file_type |-> RegularFile, name |-> WELCOME]),
        ROOT_EVENT_NAME)

recovery_file(next_ino) ==
    FileObject([ino |-> next_ino, size |-> WELCOME_SIZE, kind |-> RegularFile,
                perm |-> WELCOME_PERM, nlink |-> 1, uid |-> 0, gid |-> 0],
               WELCOME, <<>>)

\* one inode new_inode returned, and whether it was then a key of the mapping
IssuedFrom(c, ino) == [ino |-> ino, clash |-> ino \in DOMAIN c.ino_to_id]

\* WhenFS::new; status "err" is the Err it returns, "panic" a failed assert_eq!
WhenFS_new(c, cal, budget) ==
    Let(get(c, cal, budget, FUSE_ROOT_ID), LAMBDA probe :
    IF probe.status # "ok"
    THEN [status |-> probe.status, fs |-> Fs(probe.cache, 0), calendar |-> cal,
          budget |-> probe.budget, issued |-> <<>>]
    ELSE IF probe.found
    THEN [status |-> "ok", fs |-> Fs(probe.cache, 0), calendar |-> cal,
          budget |-> probe.budget, issued |-> <<>>]
    ELSE
    Let(insert(probe.cache, cal, probe.budget, FUSE_ROOT_ID, root_dir_obj),
        LAMBDA first :
    IF first.status # "ok"
    THEN [status |-> "err", fs |-> Fs(first.cache, 0),
          calendar |-> first.calendar, budget |-> first.budget,
          issued |-> <<>>]
    ELSE
    Let(new_inode(first.cache), LAMBDA next :
    Let(insert(next.cache, first.calendar, first.budget, next.ino,
               recovery_file(next.ino)), LAMBDA second :
    LET issued == <<IssuedFrom(first.cache, next.ino)>>
    IN IF second.status # "ok"
       THEN [status |-> "err", fs |-> Fs(second.cache, 0),
             calendar |-> second.calendar, budget |-> second.budget,
             issued |-> issued]
       ELSE [status |-> IF next.ino = FUSE_ROOT_ID + 1 THEN "ok" ELSE "panic",
             fs |-> Fs(second.cache, 0), calendar |-> second.calendar,
             budget |-> second.budget, issued |-> issued]))))

\* main: root_event_id is the --root-event argument, "" when it is not given
main(cal, budget, root_event_id) ==
    Let(IF root_event_id = ""
        THEN WhenFSCache_new(cal, budget)
        ELSE Let(recover(cal, budget, root_entry_of(root_event_id)), LAMBDA r :
                 [status |-> r.status, calendar |-> cal, budget |-> r.budget,
                  cache |-> r.cache]),
        LAMBDA made :
    IF made.status # "ok"
    THEN [status |-> made.status, fs |-> Fs(NoCacheValue, 0),
          calendar |-> made.calendar, budget |-> made.budget, issued |-> <<>>]
    ELSE WhenFS_new(made.cache, made.calendar, made.budget))

CalendarLine == "--calendar "
RootEventLine == "--root-event "

\* the text between the first line and the two argument lines, and the text
\* after them, are left out
get_recovery_file_contents(fs) ==
    LET id == get_recovery_id(fs.cache)
    IN "Welcome to WhenFS!\n" \o CalendarLine \o id.cal_id \o "\n"
       \o RootEventLine \o id.root_id \o "\n"

get_filesystem_object_by_ino(fs, cal, budget, ino) ==
    Let(get(fs.cache, cal, budget, ino), LAMBDA r :
    [errno |-> IF r.status = "panic" THEN "PANIC"
               ELSE IF r.status = "err" THEN "EIO"
               ELSE IF ~r.found THEN "ENOENT" ELSE "OK",
     fs |-> WithCache(fs, r.cache), budget |-> r.budget, obj |-> r.obj])

\* mutant of as_file_type: a mode that is not a directory's is taken for a
\* regular file's
as_file_type_any(mode) ==
    LET fmt == ((mode \div 4096) % 16) * 4096
    IN IF fmt = S_IFDIR THEN [errno |-> "OK", kind |-> Directory]
       ELSE [errno |-> "OK", kind |-> RegularFile]

as_file_type(mode) ==
    LET fmt == ((mode \div 4096) % 16) * 4096
    IN IF fmt = S_IFREG THEN [errno |-> "OK", kind |-> RegularFile]
       ELSE IF fmt = S_IFDIR THEN [errno |-> "OK", kind |-> Directory]
       ELSE [errno |-> "ENOSYS", kind |-> RegularFile]

\* mutant of new_file_handle: the counter is read and not advanced
new_file_handle_load(fs, read, write) ==
    [fh |-> FileHandle(fs.file_handle_count, read, write), fs |-> fs]

new_file_handle(fs, read, write) ==
    [fh |-> FileHandle(fs.file_handle_count, read, write),
     fs |-> [fs EXCEPT !.file_handle_count = fs.file_handle_count + 1]]

\* mutant of check_file_handle_write: the read bit is tested
check_file_handle_read(fh) == fh.read

check_file_handle_write(fh) == fh.write

\* open replies the handle 0 whatever the flags
open(fs, flags) == [errno |-> "OK", fh |-> NoHandle]

\* the callbacks that only reply an error
UnsupportedOps ==
    {"readlink", "mknod", "mkdir", "unlink", "rmdir", "symlink", "rename", "link",
     "fsync", "readdirplus", "fsyncdir", "setxattr", "getxattr", "listxattr",
     "removexattr", "getlk", "setlk", "bmap", "ioctl", "fallocate", "lseek",
     "copy_file_range"}
\* mutant of unsupported: every such callback replies ENOSYS
unsupported_all_enosys(fs, cal, budget, op) ==
    Done(fs, cal, budget, Out(op, "ENOSYS"), <<>>)

unsupported(fs, cal, budget, op) ==
    Done(fs, cal, budget,
         Out(op, IF op \in {"symlink", "link"} THEN "EPERM" ELSE "ENOSYS"), <<>>)

getattr(fs, cal, budget, ino) ==
    Let(get_filesystem_object_by_ino(fs, cal, budget, ino), LAMBDA found :
    LET out == [Out("getattr", found.errno) EXCEPT !.ino = ino]
    IN IF found.errno # "OK"
       THEN Done(found.fs, cal, found.budget, out, <<>>)
       ELSE Done(found.fs, cal, found.budget, [out EXCEPT !.attr = found.obj.attr],
                 <<>>))

lookup(fs, cal, budget, parent, name) ==
    LET out == [Out("lookup", "OK") EXCEPT !.parent = parent, !.name = name]
        reply_error(f, b, errno) ==
            Done(f, cal, b, [out EXCEPT !.errno = errno], <<>>)
    IN IF Len(name) > MAX_NAME_LENGTH
       THEN reply_error(fs, budget, "ENAMETOOLONG")
       ELSE
       Let(get_filesystem_object_by_ino(fs, cal, budget, parent), LAMBDA parent_obj :
       IF parent_obj.errno # "OK"
       THEN reply_error(parent_obj.fs, parent_obj.budget, parent_obj.errno)
       ELSE IF parent_obj.obj.tag # "Dir"
       THEN reply_error(parent_obj.fs, parent_obj.budget, "ENOTDIR")
       ELSE IF get_entry_by_name(parent_obj.obj, name) = {}
       THEN reply_error(parent_obj.fs, parent_obj.budget, "ENOENT")
       ELSE
       LET found == CHOOSE e \in get_entry_by_name(parent_obj.obj, name) : TRUE
       IN Let(get(parent_obj.fs.cache, cal, parent_obj.budget, found.ino),
              LAMBDA handle :
          LET f == WithCache(parent_obj.fs, handle.cache)
          IN IF handle.status = "panic" THEN reply_error(f, handle.budget, "PANIC")
             ELSE IF handle.status = "err" THEN reply_error(f, handle.budget, "EIO")
             ELSE IF ~handle.found THEN reply_error(f, handle.budget, "ENOENT")
             ELSE Done(f, cal, handle.budget,
                       [out EXCEPT !.attr = handle.obj.attr, !.ino = found.ino],
                       <<>>)))

\* mutant of new_dir_entries: ".." is given the new directory's own inode,
\* and the set, which compares entries by inode, keeps "." alone
new_dir_entries_own_parent(ino, parent) ==
    insert_entry(
        insert_entry({}, [ino |-> ino, file_type |-> Directory, name |-> "."]),
        [ino |-> ino, file_type |-> Directory, name |-> ".."])

\* the entries a new directory is created with
new_dir_entries(ino, parent) ==
    insert_entry(
        insert_entry({}, [ino |-> ino, file_type |-> Directory, name |-> "."]),
        [ino |-> parent, file_type |-> Directory, name |-> ".."])

create(fs, cal, budget, req, parent, name, mode, flags) ==
    LET out == [Out("create", "OK") EXCEPT !.parent = parent, !.name = name,
                                           !.req = req, !.mode = mode,
                                           !.flags = flags]
        reply_error(f, c, b, errno, issued) ==
            Done(f, c, b, [out EXCEPT !.errno = errno], issued)
        access == flags % (O_ACCMODE + 1)
        read == access \in {O_RDONLY, O_RDWR}
        write == access \in {O_WRONLY, O_RDWR}
    IN IF access \notin {O_RDONLY, O_WRONLY, O_RDWR}
       THEN reply_error(fs, cal, budget, "EINVAL", <<>>)
       ELSE
       Let(get(fs.cache, cal, budget, parent), LAMBDA handle :
       LET f0 == WithCache(fs, handle.cache)
       IN IF handle.status = "panic"
          THEN reply_error(f0, cal, handle.budget, "PANIC", <<>>)
          ELSE IF handle.status = "err"
          THEN reply_error(f0, cal, handle.budget, "EIO", <<>>)
          ELSE IF ~handle.found
          THEN reply_error(f0, cal, handle.budget, "ENOENT", <<>>)
          ELSE IF handle.obj.tag # "Dir"
          THEN reply_error(f0, cal, handle.budget, "ENOTDIR", <<>>)
          ELSE IF get_entry_by_name(handle.obj, name) # {}
          THEN reply_error(f0, cal, handle.budget, "EEXIST", <<>>)
          ELSE IF as_file_type(mode).errno # "OK"
          THEN reply_error(f0, cal, handle.budget, as_file_type(mode).errno, <<>>)
          ELSE
          Let(new_inode(f0.cache), LAMBDA next :
          LET kind == as_file_type(mode).kind
              ino == next.ino
              issued == <<IssuedFrom(f0.cache, ino)>>
              attr == [ino |-> ino, size |-> 0, kind |-> kind,
                       perm |-> mode % 65536, nlink |-> 1,
                       uid |-> req.uid, gid |-> req.gid]
              new_parent_dir ==
                  [handle.obj EXCEPT !.entries =
                      insert_entry(handle.obj.entries,
                                   [ino |-> ino, file_type |-> kind, name |-> name])]
              obj == IF kind = RegularFile
                     THEN FileObject(attr, name, <<>>)
                     ELSE DirectoryObject(attr, new_dir_entries(ino, parent), name)
          IN Let(insert(next.cache, cal, handle.budget, ino, obj), LAMBDA first :
             IF first.status # "ok"
             THEN reply_error(WithCache(f0, first.cache), first.calendar,
                              first.budget, "EIO", issued)
             ELSE
             Let(insert(first.cache, first.calendar, first.budget, parent,
                        new_parent_dir), LAMBDA second :
             IF second.status # "ok"
             THEN reply_error(WithCache(f0, second.cache), second.calendar,
                              second.budget, "EIO", issued)
             ELSE
             Let(new_file_handle(WithCache(f0, second.cache), read, write),
                 LAMBDA made :
             Done(made.fs, second.calendar, second.budget,
                  [out EXCEPT !.attr = attr, !.fh = made.fh, !.ino = ino],
                  issued))))))

\* guard_held: the caller still holds a read guard on the object.  Taking the
\* write lock then never succeeds: the thread blocks or panics (lock)
write_inode(fs, cal, budget, ino, attr, guard_held, lock) ==
    Let(get_filesystem_object_by_ino(fs, cal, budget, ino), LAMBDA found :
    IF found.errno # "OK"
    THEN [errno |-> found.errno, fs |-> found.fs, calendar |-> cal,
          budget |-> found.budget]
    ELSE IF guard_held
    THEN [errno |-> lock, fs |-> found.fs, calendar |-> cal,
          budget |-> found.budget]
    ELSE Let(insert(found.fs.cache, cal, found.budget, ino,
                    [found.obj EXCEPT !.attr = attr]), LAMBDA put :
         [errno |-> "OK", fs |-> WithCache(found.fs, put.cache),
          calendar |-> put.calendar, budget |-> put.budget]))

setattr(fs, cal, budget, req, ino, mode, uid, gid, size, lock) ==
    Let(get_filesystem_object_by_ino(fs, cal, budget, ino), LAMBDA found :
    LET out == [Out("setattr", "OK") EXCEPT !.ino = ino, !.req = req,
                                            !.mode = mode, !.uid = uid,
                                            !.gid = gid, !.size = size]
        attrs == found.obj.attr
        reply_error(errno) ==
            Done(found.fs, cal, found.budget, [out EXCEPT !.errno = errno], <<>>)
        written(new_attrs) ==
            Let(write_inode(found.fs, cal, found.budget, attrs.ino, new_attrs,
                            TRUE, lock), LAMBDA w :
            Done(w.fs, w.calendar, w.budget,
                 IF w.errno = "OK" THEN [out EXCEPT !.attr = new_attrs]
                 ELSE [out EXCEPT !.errno = w.errno], <<>>))
    IN IF found.errno # "OK" THEN reply_error(found.errno)
       ELSE IF mode # None
       THEN IF req.uid # 0 /\ req.uid # attrs.uid THEN reply_error("EPERM")
            ELSE written([attrs EXCEPT !.perm =
                            IF req.uid # 0 /\ req.gid # attrs.gid
                            THEN ClearBit(mode, S_ISGID) % 65536
                            ELSE mode % 65536])
       ELSE IF uid # None \/ gid # None
       THEN IF gid # None /\ req.uid # 0 THEN reply_error("EPERM")
            ELSE IF uid # None /\ req.uid # 0
                    /\ ~(uid = attrs.uid /\ req.uid = attrs.uid)
            THEN reply_error("EPERM")
            ELSE IF gid # None /\ req.uid # 0 /\ req.uid # attrs.uid
            THEN reply_error("EPERM")
            ELSE IF AnyExecBit(attrs.perm) THEN reply_error("ENOSYS")
            ELSE LET a1 == IF uid # None
                           THEN [attrs EXCEPT !.uid = uid,
                                              !.perm = ClearBit(attrs.perm, S_ISUID)]
                           ELSE attrs
                     a2 == IF gid # None
                           THEN [a1 EXCEPT !.gid = gid,
                                           !.perm = IF req.uid # 0
                                                    THEN ClearBit(a1.perm, S_ISGID)
                                                    ELSE a1.perm]
                           ELSE a1
                 IN written(a2)
       ELSE IF size # None THEN reply_error("ENOSYS")
       ELSE Done(found.fs, cal, found.budget, [out EXCEPT !.attr = attrs], <<>>))

\* libc access masks, and a & b on non-negative integers
F_OK == 0
X_OK == 1
W_OK == 2 * X_OK
R_OK == 4 * X_OK
RECURSIVE BitAnd(_, _)
BitAnd(a, b) ==
    IF a = 0 \/ b = 0 THEN 0
    ELSE (a % 2) * (b % 2) + 2 * BitAnd(a \div 2, b \div 2)

(***************************************************************************)
(* File handles as 64-bit words: the two top bits and the 62 low bits.     *)
(***************************************************************************)
MaxLow == 6

U64(top, low) == [top |-> top, low |-> low]

FILE_HANDLE_READ_BIT == U64(2, 0)
FILE_HANDLE_WRITE_BIT == U64(1, 0)

\* a | b, a & b != 0 and a < b on words
BitOr(a, b) ==
    U64(a.top + b.top - BitAnd(a.top, b.top), a.low + b.low - BitAnd(a.low, b.low))
Meets(a, b) == BitAnd(a.top, b.top) # 0 \/ BitAnd(a.low, b.low) # 0
Less(a, b) == a.top < b.top \/ (a.top = b.top /\ a.low < b.low)

\* AtomicU64::fetch_add(1): wraps at 2^64
fetch_add(v) ==
    IF v.low < MaxLow THEN U64(v.top, v.low + 1) ELSE U64((v.top + 1) % 4, 0)

\* fetch_add comes first: the counter advances also when the assertion fails
new_file_handle_u64(count, read, write) ==
    LET fh == count
        with_read == IF read THEN BitOr(fh, FILE_HANDLE_READ_BIT) ELSE fh
        with_write == IF write THEN BitOr(with_read, FILE_HANDLE_WRITE_BIT)
                      ELSE with_read
    IN [status |-> IF Less(fh, BitOr(FILE_HANDLE_READ_BIT, FILE_HANDLE_WRITE_BIT))
                   THEN "ok" ELSE "panic",
        fh |-> with_write, count |-> fetch_add(count)]

check_file_handle_write_u64(file_handle) == Meets(file_handle, FILE_HANDLE_WRITE_BIT)

\* mutant of check_access: a requester other than root is always checked
\* against the bits for others
check_access_other_bits(file_uid, file_gid, file_mode, uid, gid, access_mask) ==
    IF access_mask = F_OK THEN TRUE
    ELSE IF uid = 0
    THEN (BitAnd(access_mask, X_OK) = 0) # (BitAnd(file_mode, 73) # 0)
    ELSE access_mask - BitAnd(access_mask, file_mode) = 0

\* 73 is 0o111; file_mode >> 6 and >> 3 are the divisions by 64 and by 8
check_access(file_uid, file_gid, file_mode, uid, gid, access_mask) ==
    IF access_mask = F_OK THEN TRUE
    ELSE IF uid = 0
    THEN (BitAnd(access_mask, X_OK) = 0) # (BitAnd(file_mode, 73) # 0)
    ELSE LET left ==
                 IF uid = file_uid
                 THEN access_mask - BitAnd(access_mask, file_mode \div 64)
                 ELSE IF gid = file_gid
                 THEN access_mask - BitAnd(access_mask, file_mode \div 8)
                 ELSE access_mask - BitAnd(access_mask, file_mode)
         IN left = 0

access(fs, cal, budget, req, ino, mask) ==
    Let(get_filesystem_object_by_ino(fs, cal, budget, ino), LAMBDA found :
    LET out == [Out("access", found.errno) EXCEPT !.ino = ino, !.req = req,
                                                  !.mask = mask]
        attr == found.obj.attr
    IN IF found.errno # "OK" THEN Done(found.fs, cal, found.budget, out, <<>>)
       ELSE IF check_access(attr.uid, attr.gid, attr.perm, req.uid, req.gid, mask)
       THEN Done(found.fs, cal, found.budget, [out EXCEPT !.attr = attr], <<>>)
       ELSE Done(found.fs, cal, found.budget,
                 [out EXCEPT !.errno = "EACCES", !.attr = attr], <<>>))

\* what reply.add is given for the entry at position offset + i
Added(entry, next_offset) ==
    [ino |-> entry.ino, offset |-> next_offset, kind |-> entry.file_type,
     name |-> entry.name]

\* mutant of readdir_loop: an entry is tagged with its own position
RECURSIVE readdir_loop_own_position(_, _, _, _, _)
readdir_loop_own_position(order, offset, i, room, added) ==
    IF offset + i >= Len(order) \/ Len(added) >= room THEN added
    ELSE readdir_loop_own_position(
             order, offset, i + 1, room,
             Append(added, Added(order[offset + i + 1], offset + i)))

\* for (i, entry) in dir.entries.iter().skip(offset).enumerate(): order is
\* the order in which the HashSet yields its entries; reply.add takes room
\* entries and answers that the buffer is full for the next one, which ends
\* the loop
RECURSIVE readdir_loop(_, _, _, _, _)
readdir_loop(order, offset, i, room, added) ==
    IF offset + i >= Len(order) \/ Len(added) >= room THEN added
    ELSE readdir_loop(order, offset, i + 1, room,
                      Append(added, Added(order[offset + i + 1], offset + i + 1)))

\* assert!(offset >= 0) is a panic on a negative offset
readdir(fs, cal, budget, ino, offset, order, room) ==
    LET out == [Out("readdir", "OK") EXCEPT !.ino = ino, !.offset = offset,
                                            !.order = order, !.room = room]
    IN IF offset < 0 THEN Done(fs, cal, budget, [out EXCEPT !.errno = "PANIC"], <<>>)
       ELSE
       Let(get_filesystem_object_by_ino(fs, cal, budget, ino), LAMBDA found :
       IF found.errno # "OK"
       THEN Done(found.fs, cal, found.budget, [out EXCEPT !.errno = found.errno],
                 <<>>)
       ELSE IF found.obj.tag # "Dir"
       THEN Done(found.fs, cal, found.budget, [out EXCEPT !.errno = "ENOTDIR"], <<>>)
       ELSE Done(found.fs, cal, found.budget,
                 [out EXCEPT !.entries = readdir_loop(order, offset, 0, room, <<>>)],
                 <<>>))

\* &data[lower..upper]: the bytes after the first lower ones up to the
\* upper-th; a panic when lower > upper
read(fs, cal, budget, ino, offset, size) ==
    LET out == [Out("read", "OK") EXCEPT !.ino = ino, !.offset = offset,
                                         !.size = size]
    IN IF offset < 0 THEN Done(fs, cal, budget, [out EXCEPT !.errno = "EINVAL"], <<>>)
       ELSE IF ino = FUSE_ROOT_ID + 1
       THEN LET data == get_recovery_file_contents(fs)
                upper_bound == Min(offset + size, Len(data))
            IN IF offset > upper_bound
               THEN Done(fs, cal, budget, [out EXCEPT !.errno = "PANIC"], <<>>)
               ELSE Done(fs, cal, budget,
                         [out EXCEPT !.text = SubSeq(data, offset + 1, upper_bound)],
                         <<>>)
       ELSE
       Let(get_filesystem_object_by_ino(fs, cal, budget, ino), LAMBDA found :
       LET reply_error(errno) ==
               Done(found.fs, cal, found.budget, [out EXCEPT !.errno = errno], <<>>)
       IN IF found.errno # "OK" THEN reply_error(found.errno)
          ELSE IF found.obj.tag = "Dir" THEN reply_error("EISDIR")
          ELSE LET upper_bound == Min(offset + size, Len(found.obj.data))
               IN IF offset > upper_bound THEN reply_error("PANIC")
                  ELSE Done(found.fs, cal, found.budget,
                            [out EXCEPT !.data = SubSeq(found.obj.data, offset + 1,
                                                        upper_bound)], <<>>))

\* Vec::resize(new_len, 0)
resize(data, new_len) ==
    [i \in 1..new_len |-> IF i <= Len(data) THEN data[i] ELSE 0]

\* mutant of copy_from_slice: src is spliced in at offset and dst grows by it
copy_from_slice_spliced(dst, offset, src) ==
    SubSeq(dst, 1, offset) \o src \o SubSeq(dst, offset + 1, Len(dst))

\* dst[offset..offset + src.len()].copy_from_slice(src)
copy_from_slice(dst, offset, src) ==
    [i \in 1..Len(dst) |->
        IF i > offset /\ i <= offset + Len(src) THEN src[i - offset] ELSE dst[i]]

write(fs, cal, budget, ino, fh, offset, data) ==
    LET out == [Out("write", "OK") EXCEPT !.ino = ino, !.offset = offset,
                                          !.data = data, !.fh = fh]
    IN IF offset < 0 THEN Done(fs, cal, budget, [out EXCEPT !.errno = "EINVAL"], <<>>)
       ELSE IF ~check_file_handle_write(fh)
       THEN Done(fs, cal, budget, [out EXCEPT !.errno = "EACCES"], <<>>)
       ELSE
       Let(get_filesystem_object_by_ino(fs, cal, budget, ino), LAMBDA found :
       LET reply_error(errno) ==
               Done(found.fs, cal, found.budget, [out EXCEPT !.errno = errno], <<>>)
       IN IF found.errno # "OK" THEN reply_error(found.errno)
          ELSE IF found.obj.tag = "Dir" THEN reply_error("EISDIR")
          ELSE
          LET old_obj == found.obj
              old_len == old_obj.attr.size
              grows == Len(data) + offset > old_len
              new_len == old_obj.attr.size + Len(data)
              sized == IF grows
                       THEN [old_obj EXCEPT !.data = resize(old_obj.data, new_len),
                                            !.attr.size = new_len]
                       ELSE old_obj
          IN IF offset + Len(data) > Len(sized.data) THEN reply_error("PANIC")
             ELSE
             LET new_obj == [sized EXCEPT !.data =
                                copy_from_slice(sized.data, offset, data)]
             IN Let(insert(found.fs.cache, cal, found.budget, new_obj.attr.ino,
                           new_obj), LAMBDA put :
                IF put.status # "ok"
                THEN Done(WithCache(found.fs, put.cache), put.calendar, put.budget,
                          [out EXCEPT !.errno = "EIO"], <<>>)
                ELSE Done(WithCache(found.fs, put.cache), put.calendar, put.budget,
                          [out EXCEPT !.written = Len(data)], <<>>)))

(***************************************************************************)
(* Spec: the mounted filesystem.  phase: "start" (no process yet),         *)
(* "mounted" (the session loop serves callbacks, one at a time), "dead"    *)
(* (the process has exited, panicked or hangs).  A process is started      *)
(* fresh once, and later with --root-event set to a root id an earlier     *)
(* process wrote.  A callback that changed nothing (reply.quiet) is not    *)
(* followed up: the state before it enables the same callbacks with the    *)
(* same results.  A behaviour makes at most MaxFsSteps operations that     *)
(* change the filesystem or restart it, and none after the last.           *)
(***************************************************************************)
FsNow == Fs(CacheNow, file_handle_count)

Requesters == {[uid |-> 0, gid |-> 0], [uid |-> 1, gid |-> 1]}
Owner == [uid |-> 1, gid |-> 1]
FsNames == {"a", "d"}
\* a name of n bytes, and the names at and above the length lookup accepts
RECURSIVE Repeat(_, _)
Repeat(c, n) ==
    IF n = 0 THEN "" ELSE IF n = 1 THEN c
    ELSE Repeat(c, n \div 2) \o Repeat(c, n - (n \div 2))
LongNames == {Repeat("n", MAX_NAME_LENGTH), Repeat("n", MAX_NAME_LENGTH + 1)}
\* the inodes the kernel may name: those handed out so far and the next one
Inos == 1..Max(inode_count, FUSE_ROOT_ID + 1)
\* create requests: a file opened for reading and writing, for reading only
\* or for writing only, a directory, a symbolic link, a file with an invalid access mode
CreateRequests ==
    {[name |-> "a", mode |-> S_IFREG + 420, flags |-> O_RDWR],
     [name |-> "a", mode |-> S_IFREG + 420, flags |-> O_RDONLY],
     [name |-> "a", mode |-> S_IFREG + 420, flags |-> O_WRONLY],
     [name |-> "d", mode |-> S_IFDIR + 493, flags |-> O_RDONLY],
     [name |-> "a", mode |-> S_IFLNK + 511, flags |-> O_RDWR],
     [name |-> "a", mode |-> S_IFREG + 420, flags |-> O_ACCMODE]}
WriteData == {[i \in 1..n |-> 6 + i] : n \in {0, MaxWrite}}
Offsets == (0 - 1)..MaxOffset
ReadSizes == {1, 16}
\* setattr requests: chmod, chown (uid, gid), truncate, utimens
SetattrRequests ==
    {[mode |-> 384, uid |-> None, gid |-> None, size |-> None],
     [mode |-> None, uid |-> 1, gid |-> None, size |-> None],
     [mode |-> None, uid |-> None, gid |-> 1, size |-> None],
     [mode |-> None, uid |-> None, gid |-> None, size |-> 0],
     [mode |-> None, uid |-> None, gid |-> None, size |-> None]}
\* the handles the kernel may pass for an inode: those create returned for it
\* and the one open returns
HandlesOf(ino) ==
    {h.fh : h \in {x \in hist.handles : x.ino = ino}} \cup {open(FsNow, O_RDWR).fh}

NoReply(r) == r.out.errno \in {"PANIC", "HANG"}
Changed(r) ==
    \/ NoReply(r)
    \/ r.fs # FsNow
    \/ r.calendar # calendar
    \/ r.budget = Down

AllIssued(h, issued) == [h EXCEPT !.issued = h.issued \o issued]

\* the state after a callback returned r; counts: it counts against MaxSteps
Apply(r, counts) ==
    /\ calendar' = r.calendar
    /\ faults' = FaultsAfter(r.budget)
    /\ IF NoReply(r)
       THEN SetCache(NoCacheValue) /\ file_handle_count' = 0
       ELSE SetCache(r.fs.cache) /\ file_handle_count' = r.fs.file_handle_count
    /\ phase' = IF NoReply(r) THEN "dead" ELSE phase
    /\ reply' = [r.out EXCEPT !.quiet = ~Changed(r)]
    /\ hist' =
        IF ~Changed(r) THEN hist
        ELSE LET h1 == Published(AllIssued(hist, r.issued), r.calendar, r.fs.cache)
                 h2 == IF r.out.op = "create" /\ r.out.errno = "OK"
                       THEN [h1 EXCEPT !.handles =
                               h1.handles \cup {[ino |-> r.out.ino, fh |-> r.out.fh]}]
                       ELSE h1
                 h3 == IF r.out.errno = "EIO"
                       THEN [h2 EXCEPT !.failed = h2.failed + 1] ELSE h2
             IN IF counts THEN Stepped(h3) ELSE h3

\* the state after main ran: mounted, or the process has exited
Started(r, root_event_id, floor) ==
    /\ calendar' = r.calendar
    /\ faults' = FaultsAfter(r.budget)
    /\ IF r.status = "ok"
       THEN SetCache(r.fs.cache) /\ phase' = "mounted"
       ELSE SetCache(NoCacheValue) /\ phase' = "dead"
    /\ file_handle_count' = 0
    /\ reply' = [Out("mount", IF r.status = "ok" THEN "OK"
                              ELSE IF r.status = "panic" THEN "PANIC" ELSE "EIO")
                    EXCEPT !.name = root_event_id]
    /\ hist' = LET h0 == NewProcess(IF root_event_id = "" THEN hist ELSE Stepped(hist),
                                    IF r.status = "ok" THEN floor ELSE 0)
                   h1 == AllIssued(h0, r.issued)
               IN IF r.fs.cache.root_event = NoEntry THEN h1
                  ELSE Published(h1, r.calendar, r.fs.cache)

Init ==
    /\ phase = "start"
    /\ calendar = <<>>
    /\ faults = 0
    /\ NoCache
    /\ reply = Out("none", "OK")
    /\ hist = NoHist

Mount ==
    /\ phase = "start"
    /\ \E budget \in Budgets(CallsOf(main(calendar, NoFault, ""))) :
          Started(main(calendar, budget, ""), "", 0)

Remount ==
    /\ phase \in {"mounted", "dead"}
    /\ ~reply.quiet
    /\ hist.steps < MaxFsSteps
    /\ \E root \in hist.roots :
        \E budget \in Budgets(CallsOf(main(calendar, NoFault, root.id))) :
          Started(main(calendar, budget, root.id), root.id,
                  IF DOMAIN root.map = {} THEN 0 ELSE SetMax(DOMAIN root.map))

Serving == phase = "mounted" /\ ~reply.quiet /\ hist.steps < MaxFsSteps

Getattr ==
    /\ Serving
    /\ \E ino \in Inos :
        \E budget \in Budgets(CallsOf(getattr(FsNow, calendar, NoFault, ino))) :
          Apply(getattr(FsNow, calendar, budget, ino), FALSE)

Lookup ==
    /\ Serving
    /\ \E parent \in Inos, name \in FsNames \cup {WELCOME} \cup LongNames :
        \E budget \in Budgets(CallsOf(lookup(FsNow, calendar, NoFault, parent, name))) :
          Apply(lookup(FsNow, calendar, budget, parent, name), FALSE)

Create ==
    /\ Serving
    /\ \E parent \in Inos, c \in CreateRequests :
        \E budget \in Budgets(CallsOf(create(FsNow, calendar, NoFault, Owner, parent,
                                              c.name, c.mode, c.flags))) :
          Apply(create(FsNow, calendar, budget, Owner, parent, c.name, c.mode,
                       c.flags), TRUE)

Setattr ==
    /\ Serving
    /\ \E req \in Requesters, ino \in Inos, a \in SetattrRequests,
          lock \in {"HANG", "PANIC"} :
        \E budget \in Budgets(CallsOf(setattr(FsNow, calendar, NoFault, req, ino,
                                               a.mode, a.uid, a.gid, a.size, lock))) :
          Apply(setattr(FsNow, calendar, budget, req, ino, a.mode, a.uid, a.gid,
                        a.size, lock), TRUE)

Read ==
    /\ Serving
    /\ \E ino \in Inos, offset \in Offsets, size \in ReadSizes :
        \E budget \in Budgets(CallsOf(read(FsNow, calendar, NoFault, ino, offset,
                                            size))) :
          Apply(read(FsNow, calendar, budget, ino, offset, size), FALSE)

Write ==
    /\ Serving
    /\ \E ino \in Inos, offset \in Offsets, data \in WriteData :
        \E fh \in HandlesOf(ino) :
        \E budget \in Budgets(CallsOf(write(FsNow, calendar, NoFault, ino, fh, offset,
                                             data))) :
          Apply(write(FsNow, calendar, budget, ino, fh, offset, data), TRUE)

Open ==
    /\ Serving
    /\ \E ino \in Inos, flags \in {O_RDONLY, O_WRONLY, O_RDWR} :
          Apply(Done(FsNow, calendar, NoFault,
                     [Out("open", open(FsNow, flags).errno)
                         EXCEPT !.ino = ino, !.flags = flags,
                                !.fh = open(FsNow, flags).fh], <<>>), FALSE)

Unsupported ==
    /\ Serving
    /\ \E op \in UnsupportedOps :
          Apply(unsupported(FsNow, calendar, NoFault, op), FALSE)

Next ==
    \/ Mount
    \/ Remount
    \/ Getattr
    \/ Lookup
    \/ Create
    \/ Setattr
    \/ Read
    \/ Write
    \/ Open
    \/ Unsupported

Spec == Init /\ [][Next]_vars

(***************************************************************************)
(* Properties of the mounted filesystem (Spec).                            *)
(***************************************************************************)
\* a process started now with --root-event set to the current recovery id
Recovered ==
    recover(calendar, NoFault, root_entry_of(get_recovery_id(CacheNow).root_id))
RecoveredFs == Fs(Recovered.cache, 0)

CreateReplied == phase = "mounted" /\ reply.op = "create" /\ reply.errno = "OK"
WriteReplied == phase = "mounted" /\ reply.op = "write" /\ reply.errno = "OK"

\* C4: whenever create or write replies success the root chain is already
\* rewritten: a cache recovered from the recovery id current at the reply
\* resolves the created name, by lookup in the parent, to the created inode,
\* and reads back the written bytes at the written offset.
C4_ReplyAfterRootRewrite ==
    /\ CreateReplied
       => /\ Recovered.status = "ok"
          /\ LET found == lookup(RecoveredFs, calendar, NoFault, reply.parent,
                                 reply.name).out
             IN found.errno = "OK" /\ found.attr.ino = reply.attr.ino
    /\ WriteReplied
       => /\ Recovered.status = "ok"
          /\ LET got == read(RecoveredFs, calendar, NoFault, reply.ino, reply.offset,
                             Len(reply.data)).out
             IN got.errno = "OK" /\ got.data = reply.data

\* the inodes the entries of the directories of the in-memory tree refer to
LiveEntryInos ==
    UNION {{e.ino : e \in GetNow(d).obj.entries} : d \in DOMAIN ino_to_id}

\* C5: after every successful create, write or setattr the mapping decoded
\* from the root chain of the current recovery id contains every inode an
\* entry of a live directory refers to, and each of them resolves through the
\* cache to an object.
C5_NoDanglingEntry ==
    (phase = "mounted" /\ reply.op \in {"create", "write", "setattr"}
     /\ reply.errno = "OK")
    => LET got == decoded_root(calendar, get_recovery_id(CacheNow).root_id)
       IN /\ got.status = "ok"
          /\ \A i \in LiveEntryInos :
                i \in DOMAIN got.value.map /\ GetNow(i).found

\* C8: within one process new_inode returns strictly increasing values, none
\* of them a key of the inode mapping when it is returned, whatever creates
\* succeed or fail in between.
C8_InodesIncrease ==
    \A k \in 1..Len(hist.issued) :
        /\ ~hist.issued[k].clash
        /\ k > 1 => hist.issued[k].ino > hist.issued[k - 1].ino

C8_Witness ==
    /\ Len(hist.issued) >= 2
    /\ hist.failed >= 1
    /\ reply.op = "create"
    /\ reply.errno = "OK"
    /\ reply.attr.ino = Last(hist.issued).ino

\* C10: a successful write leaves the file with size max(old size, offset +
\* len(data)), the bytes from offset on equal to data, every other byte below
\* the old size unchanged, and replies len(data): for appends, for overwrites
\* inside the file and for writes that start inside it and end past its end.
C10_Step ==
    (phase = "mounted" /\ reply'.op = "write" /\ reply'.errno = "OK")
    => LET old == GetNow(reply'.ino).obj
           new == GetNext(reply'.ino).obj
           offset == reply'.offset
           n == Len(reply'.data)
       IN /\ new.attr.size = Max(old.attr.size, offset + n)
          /\ Len(new.data) = new.attr.size
          /\ SubSeq(new.data, offset + 1, offset + n) = reply'.data
          /\ \A i \in 1..old.attr.size :
                (i <= offset \/ i > offset + n) => new.data[i] = old.data[i]
          /\ reply'.written = n

C10_WriteSizeAndBytes == [][C10_Step]_vars

\* the positions [offset, min(offset + size, length)) of a sequence or text
SliceOf(content, offset, size) ==
    SubSeq(content, offset + 1, Min(offset + size, Len(content)))

\* C11: a read with offset >= 0 of a regular file replies exactly the content
\* bytes at [offset, min(offset + size, length)), the empty sequence when
\* offset >= length; a read of inode 2 replies the same slice of the welcome
\* bytes generated at that time; a read of a directory replies EISDIR and a
\* read with a negative offset EINVAL.  (Reads in which a calendar call
\* fails are left aside.)
C11_Step ==
    (phase = "mounted" /\ reply'.op = "read" /\ faults' = faults)
    => IF reply'.offset < 0 THEN reply'.errno = "EINVAL"
       ELSE IF reply'.ino = FUSE_ROOT_ID + 1
       THEN /\ reply'.errno = "OK"
            /\ reply'.text = SliceOf(get_recovery_file_contents(FsNow),
                                     reply'.offset, reply'.size)
       ELSE IF ~GetNow(reply'.ino).found THEN TRUE
       ELSE IF GetNow(reply'.ino).obj.tag = "Dir" THEN reply'.errno = "EISDIR"
       ELSE /\ reply'.errno = "OK"
            /\ reply'.data = SliceOf(GetNow(reply'.ino).obj.data, reply'.offset,
                                     reply'.size)

C11_ReadReturnsSlice == [][C11_Step]_vars

\* C12: a write with offset >= 0 through a handle whose write bit is clear
\* replies EACCES and leaves the objects (content and size of every file), the
\* inode mapping, the inode counter, the recovery id and the calendar as they
\* were, whatever the inode and the data.
C12_Step ==
    (phase = "mounted" /\ reply'.op = "write" /\ reply'.offset >= 0
     /\ ~reply'.fh.write)
    => /\ reply'.errno = "EACCES"
       /\ UNCHANGED <<ino_to_id, id_to_obj, inode_count, root_event, calendar>>

C12_WriteNeedsWriteBit == [][C12_Step]_vars

C12_Witness ==
    /\ reply.op = "write"
    /\ reply.errno = "EACCES"
    /\ reply.fh.read
    /\ ~reply.fh.write
    /\ reply.data # <<>>
    /\ GetNow(reply.ino).found
    /\ GetNow(reply.ino).obj.tag = "File"

\* C13: the handle create returns has its read bit (bit 63) set iff the
\* access mode is O_RDONLY or O_RDWR and its write bit (bit 62) set iff it is
\* O_WRONLY or O_RDWR, and its sequence number (the low 62 bits) is greater
\* than that of every handle create returned earlier in this process.
C13_Step ==
    (phase = "mounted" /\ reply'.op = "create" /\ reply'.errno = "OK")
    => /\ reply'.fh.read <=> (reply'.flags % (O_ACCMODE + 1)) \in {O_RDONLY, O_RDWR}
       /\ reply'.fh.write <=> (reply'.flags % (O_ACCMODE + 1)) \in {O_WRONLY, O_RDWR}
       /\ \A h \in hist.handles : h.fh.seq < reply'.fh.seq

C14_Step ==
    /\ (phase = "mounted" /\ reply'.op = "open" /\ reply'.errno = "OK")
       => /\ reply'.fh.read <=> reply'.flags \in {O_RDONLY, O_RDWR}
          /\ reply'.fh.write <=> reply'.flags \in {O_WRONLY, O_RDWR}
    /\ (/\ phase = "mounted"
        /\ reply'.op = "write"
        /\ reply'.offset >= 0
        /\ reply'.fh \in {open(FsNow, flags).fh : flags \in {O_WRONLY, O_RDWR}}
        /\ GetNow(reply'.ino).found
        /\ GetNow(reply'.ino).obj.tag = "File")
       => reply'.errno # "EACCES"

C14_OpenHandleWrites == [][C14_Step]_vars

\* C17: mkdir, unlink, rmdir, rename, mknod, readlink, fsync, the xattr
\* callbacks, the locking callbacks, ioctl, fallocate, lseek, copy_file_range
\* and readdirplus reply ENOSYS, symlink and link reply EPERM, and a setattr
\* of an existing inode with only the size set (truncate) replies ENOSYS; each
\* leaves the inode counter, the inode mapping, the recovery id and the
\* calendar as they were.
C17_Frame == UNCHANGED <<inode_count, ino_to_id, root_event, calendar>>

C17_Step ==
    /\ (phase = "mounted"
        /\ reply'.op \in {"mkdir", "unlink", "rmdir", "rename", "mknod", "readlink",
                          "fsync", "setxattr", "getxattr", "listxattr",
                          "removexattr", "getlk", "setlk", "ioctl", "fallocate",
                          "lseek", "copy_file_range", "readdirplus"})
       => reply'.errno = "ENOSYS" /\ C17_Frame
    /\ (phase = "mounted" /\ reply'.op \in {"symlink", "link"})
       => reply'.errno = "EPERM" /\ C17_Frame
    /\ (/\ phase = "mounted"
        /\ reply'.op = "setattr"
        /\ reply'.size # None
        /\ reply'.mode = None /\ reply'.uid = None /\ reply'.gid = None
        /\ GetNow(reply'.ino).found
        /\ faults' = faults)
       => reply'.errno = "ENOSYS" /\ C17_Frame

C17_UnsupportedReplies == [][C17_Step]_vars

C17_Witness ==
    /\ phase = "mounted"
    /\ reply.op = "symlink"
    /\ reply.errno = "EPERM"
    /\ inode_count > FUSE_ROOT_ID + 2

\* C18: after a fresh mount the root directory at inode 1 has exactly the
\* entries (1, Directory, ".") and (2, RegularFile, "WelcomeToWhenFS"), the
\* inode mapping holds the inodes 1 and 2, and the next value new_inode
\* returns is 3.
FreshMounted ==
    phase = "mounted" /\ reply.op = "mount" /\ reply.name = ""
    /\ reply.errno = "OK"

C18_FreshMountTree ==
    FreshMounted
    => /\ GetNow(1).found
       /\ GetNow(1).obj.tag = "Dir"
       /\ GetNow(1).obj.entries =
             {[ino |-> 1, file_type |-> "Directory", name |-> "."],
              [ino |-> 2, file_type |-> "RegularFile", name |-> "WelcomeToWhenFS"]}
       /\ DOMAIN ino_to_id = {1, 2}
       /\ new_inode(CacheNow).ino = 3

C18_Witness == FreshMounted /\ GetNow(2).found /\ Len(calendar) >= 4

\* what a read of the whole of inode 2 replies now, and after the step
WelcomeNow ==
    read(FsNow, calendar, NoFault, FUSE_ROOT_ID + 1, 0, WELCOME_SIZE).out.text
WelcomeNext ==
    read(Fs(CacheNow', file_handle_count'), calendar', NoFault, FUSE_ROOT_ID + 1, 0,
         WELCOME_SIZE).out.text
Contains(text, token) ==
    \E i \in 1..(Len(text) - Len(token) + 1) :
        SubSeq(text, i, i + Len(token) - 1) = token
RootEventToken(entry) == "--root-event " \o Last(entry.events) \o "\n"

\* C19: at any time a read of inode 2 shows "--calendar <cal_id>" and
\* "--root-event <tail_id>", tail_id being the id of the last event of the
\* current root chain; the read after a successful create or write differs
\* from the read before it and no longer shows the old root id.
C19_ShowsRecoveryId ==
    phase = "mounted"
    => /\ Contains(WelcomeNow, "--calendar " \o CalendarId \o "\n")
       /\ Contains(WelcomeNow, RootEventToken(root_event))

C19_Step ==
    (phase = "mounted" /\ reply'.op \in {"create", "write"} /\ reply'.errno = "OK")
    => /\ WelcomeNext # WelcomeNow
       /\ ~Contains(WelcomeNext, RootEventToken(root_event))

C19_WelcomeFollowsRoot == [](C19_ShowsRecoveryId) /\ [][C19_Step]_vars

C19_Witness ==
    /\ WriteReplied
    /\ reply.data # <<>>
    /\ Len(root_event.events) >= 2
    /\ Contains(WelcomeNow, RootEventToken(root_event))

\* C20: no write to inode 2 succeeds: whatever the handle, the offset and the
\* data, a write to inode 2 replies an error, and once inode 2 is mapped no
\* callback stores an object for it again.
C20_Step ==
    /\ (phase = "mounted" /\ reply'.op = "write" /\ reply'.ino = FUSE_ROOT_ID + 1)
       => reply'.errno \notin {"OK", "PANIC", "HANG"}
    /\ (phase = "mounted" /\ phase' = "mounted" /\ reply'.op # "mount"
        /\ (FUSE_ROOT_ID + 1) \in DOMAIN ino_to_id)
       => /\ (FUSE_ROOT_ID + 1) \in DOMAIN ino_to_id'
          /\ ino_to_id'[FUSE_ROOT_ID + 1] = ino_to_id[FUSE_ROOT_ID + 1]

C20_WelcomeNeverWritten == [][C20_Step]_vars

\* C21: create replies EINVAL when the access mode of flags is none of
\* read-only, write-only and read-write; otherwise ENOENT when the parent is
\* not mapped; otherwise, when the parent is fetched, ENOTDIR when it is a
\* file, EEXIST when it has an entry of that name, ENOSYS when mode & S_IFMT
\* is neither S_IFREG nor S_IFDIR.  Each of these replies leaves the inode
\* counter, the handle counter, the inode->chain map and the recovery id as
\* they were.
CreateRefusals == {"EINVAL", "ENOENT", "ENOTDIR", "EEXIST", "ENOSYS"}

C21_Step ==
    (phase = "mounted" /\ reply'.op = "create") =>
        LET r == reply'
            p == GetNow(r.parent)
            accmode_ok == BitAnd(r.flags, O_ACCMODE) \in {O_RDONLY, O_WRONLY, O_RDWR}
            fmt == BitAnd(r.mode, S_IFMT)
            is_dir == p.obj.tag = "Dir"
            named == \E e \in p.obj.entries : e.name = r.name
        IN /\ ~accmode_ok => r.errno = "EINVAL"
           /\ (accmode_ok /\ r.parent \notin DOMAIN ino_to_id) => r.errno = "ENOENT"
           /\ (accmode_ok /\ p.found /\ faults' = faults) =>
                 /\ ~is_dir => r.errno = "ENOTDIR"
                 /\ (is_dir /\ named) => r.errno = "EEXIST"
                 /\ (is_dir /\ ~named /\ fmt \notin {S_IFREG, S_IFDIR})
                       => r.errno = "ENOSYS"
                 /\ (is_dir /\ ~named /\ fmt \in {S_IFREG, S_IFDIR})
                       => r.errno \notin CreateRefusals
           /\ r.errno \in CreateRefusals =>
                 UNCHANGED <<inode_count, file_handle_count, ino_to_id, root_event>>

C21_CreateRefusals == [][C21_Step]_vars

\* a create refused with EEXIST: an earlier create made the name
C21_Witness ==
    /\ phase = "mounted"
    /\ reply.op = "create"
    /\ reply.errno = "EEXIST"
    /\ \E e \in GetNow(reply.parent).obj.entries :
          e.name = reply.name /\ e.ino > FUSE_ROOT_ID + 1

\* C22: a successful create(parent, name, mode, flags) returns an inode
\* n >= 3 that was no key of the inode->chain map before the call; the chain
\* of the new object is written before the chain of the rewritten parent;
\* afterwards lookup(parent, name) replies the attributes of n, and the
\* parent's entries are its entries before the call and the one new entry
\* (n, kind, name).
EventIndex(cal, id) == CHOOSE j \in 1..Len(cal) : EventId(j) = id

C22_Step ==
    (phase = "mounted" /\ reply'.op = "create" /\ reply'.errno = "OK") =>
        LET n == reply'.ino
            parent == reply'.parent
            entry == [ino |-> n, file_type |-> reply'.attr.kind, name |-> reply'.name]
            before == GetNow(parent).obj.entries
            after == GetNext(parent)
            found == lookup(Fs(CacheNow', file_handle_count'), calendar', NoFault,
                            parent, reply'.name).out
        IN /\ n >= FUSE_ROOT_ID + 2
           /\ n \notin DOMAIN ino_to_id
           /\ {n, parent} \subseteq DOMAIN ino_to_id'
           /\ EventIndex(calendar', Head(ino_to_id'[n].events)) > Len(calendar)
           /\ EventIndex(calendar', Last(ino_to_id'[n].events))
                 < EventIndex(calendar', Head(ino_to_id'[parent].events))
           /\ found.errno = "OK"
           /\ found.ino = n
           /\ found.attr = reply'.attr
           /\ found.attr.ino = n
           /\ after.found
           /\ entry \notin before
           /\ after.obj.entries = before \cup {entry}

C22_CreateAddsOneEntry == [][C22_Step]_vars

\* C23: setattr with mode set, on an inode the cache returns: when the
\* requester is neither uid 0 nor the owner the reply is EPERM and the map,
\* the recovery id, the calendar and the object stay as they were; otherwise
\* the reply is the object's attributes with the requested mode (S_ISGID
\* cleared when the requester is not root and its gid is not the file's),
\* the object is inserted again under a new chain, and a getattr that
\* follows replies the same attributes.
C23_Step ==
    (/\ phase = "mounted"
     /\ reply'.op = "setattr"
     /\ reply'.mode # None
     /\ faults' = faults
     /\ GetNow(reply'.ino).found) =>
        LET ino == reply'.ino
            req == reply'.req
            attrs == GetNow(ino).obj.attr
            perm == IF req.uid # 0 /\ req.gid # attrs.gid
                    THEN reply'.mode - BitAnd(reply'.mode, S_ISGID)
                    ELSE reply'.mode
        IN IF req.uid # 0 /\ req.uid # attrs.uid
           THEN /\ reply'.errno = "EPERM"
                /\ UNCHANGED <<ino_to_id, root_event, calendar>>
                /\ GetNext(ino).obj = GetNow(ino).obj
           ELSE /\ reply'.errno = "OK"
                /\ reply'.attr = [attrs EXCEPT !.perm = perm % 65536]
                /\ ino_to_id'[ino] # ino_to_id[ino]
                /\ GetNext(ino).found
                /\ GetNext(ino).obj.attr = reply'.attr
                /\ getattr(Fs(CacheNow', file_handle_count'), calendar', NoFault,
                           ino).out.attr = reply'.attr

C23_ChmodStoresMode == [][C23_Step]_vars

\* C24: a callback during which a calendar call failed (the cache returned
\* the error from get or from insert) replies EIO: it replies neither success
\* nor another errno, and it does not end without a reply.
Callbacks ==
    {"getattr", "lookup", "create", "setattr", "read", "write", "open"}
        \cup UnsupportedOps

C24_Step ==
    (phase = "mounted" /\ reply'.op \in Callbacks /\ faults' = faults + 1)
        => reply'.errno = "EIO"

C24_CacheErrorsAreEIO == [][C24_Step]_vars

\* a create whose insert failed after new_inode had returned, and a write
\* whose insert failed after the object was uploaded
C24_Witness ==
    /\ phase = "mounted"
    /\ reply.errno = "EIO"
    /\ \/ /\ reply.op = "create"
          /\ hist.issued # <<>>
          /\ Last(hist.issued).ino = inode_count - 1
          /\ Last(hist.issued).ino \in DOMAIN ino_to_id
       \/ /\ reply.op = "write"
          /\ reply.data # <<>>
          /\ GetNow(reply.ino).found
          /\ SubSeq(GetNow(reply.ino).obj.data, reply.offset + 1,
                    reply.offset + Len(reply.data)) = reply.data

\* C25: no callback panics, whatever its arguments; stated for read and
\* write: a read at an offset past the end of the content, a write at an
\* offset past the current size and a write to a file whose size attribute
\* is larger than its buffer each reply data or an errno.
C25_NoCallbackPanics ==
    reply.op \in {"read", "write"} => reply.errno # "PANIC"

\* C26: lookup(parent, name) replies ENAMETOOLONG when name has more than
\* 255 bytes, before it fetches anything; otherwise ENOENT when the parent is
\* not mapped; otherwise, when the parent is fetched, ENOTDIR when it is a
\* file, ENOENT when it has no entry of that name, and else the attributes of
\* the inode the matching entry names.  lookup changes neither the
\* inode->chain map nor the recovery id.
C26_Step ==
    (phase = "mounted" /\ reply'.op = "lookup") =>
        LET r == reply'
            p == GetNow(r.parent)
            short == Len(r.name) <= MAX_NAME_LENGTH
            named == {e \in p.obj.entries : e.name = r.name}
        IN /\ ~short => r.errno = "ENAMETOOLONG" /\ UNCHANGED <<faults, id_to_obj>>
           /\ (short /\ r.parent \notin DOMAIN ino_to_id) => r.errno = "ENOENT"
           /\ (short /\ p.found /\ faults' = faults) =>
                 /\ p.obj.tag # "Dir" => r.errno = "ENOTDIR"
                 /\ (p.obj.tag = "Dir" /\ named = {}) => r.errno = "ENOENT"
                 /\ (p.obj.tag = "Dir" /\ named # {}) =>
                       /\ r.errno = "OK"
                       /\ \E e \in named :
                             /\ r.ino = e.ino
                             /\ GetNow(e.ino).found
                             /\ r.attr = GetNow(e.ino).obj.attr
           /\ UNCHANGED <<ino_to_id, root_event, inode_count, calendar>>

C26_LookupReplies == [][C26_Step]_vars

\* C29: in every state of a mounted filesystem every directory has an entry
\* "." that names the directory's own inode, and every directory other than
\* inode 1 an entry ".." that names the parent it was created in: create
\* gives a new directory these two entries and no callback changes them
\* afterwards.
MappedDirs(map, c, cal) ==
    {ino \in DOMAIN map : get(c, cal, NoFault, ino).obj.tag = "Dir"}

Named(obj, name) == {e.ino : e \in {x \in obj.entries : x.name = name}}

C29_Dots ==
    phase = "mounted" =>
        \A ino \in MappedDirs(ino_to_id, CacheNow, calendar) :
            /\ GetNow(ino).obj.attr.ino = ino
            /\ Named(GetNow(ino).obj, ".") = {ino}
            /\ ino # FUSE_ROOT_ID =>
                  /\ Cardinality(Named(GetNow(ino).obj, "..")) = 1
                  /\ Named(GetNow(ino).obj, "..") # {ino}

C29_Step ==
    (phase = "mounted" /\ phase' = "mounted" /\ reply'.op # "mount") =>
        /\ \A ino \in MappedDirs(ino_to_id, CacheNow, calendar) :
              /\ ino \in MappedDirs(ino_to_id', CacheNow', calendar')
              /\ Named(GetNext(ino).obj, "..") = Named(GetNow(ino).obj, "..")
        /\ (reply'.op = "create" /\ reply'.errno = "OK"
            /\ reply'.attr.kind = Directory) =>
              /\ reply'.ino \in MappedDirs(ino_to_id', CacheNow', calendar')
              /\ Named(GetNext(reply'.ino).obj, "..") = {reply'.parent}

C29_DotAndDotDot == [](C29_Dots) /\ [][C29_Step]_vars

\* a directory created inside a directory that is not the root
C29_Witness ==
    /\ phase = "mounted"
    /\ \E ino \in MappedDirs(ino_to_id, CacheNow, calendar) :
          /\ ino > FUSE_ROOT_ID + 1
          /\ Named(GetNow(ino).obj, "..") \cap {FUSE_ROOT_ID, ino} = {}
          /\ Named(GetNow(ino).obj, "..") \subseteq
                MappedDirs(ino_to_id, CacheNow, calendar)

(***************************************************************************)
(* C30: after a successful store of a value whose encoding splits into     *)
(* k >= 1 chunks under sentinel s, the returned entry has name s and k     *)
(* events in creation order; event i has description = chunk i and         *)
(* location = decimal(i) (counted from 0), the first event has summary = s *)
(* and every later event has summary = the id the calendar gave the event  *)
(* before it.  Events are created one after another: a store that fails    *)
(* has created exactly the events of a proper prefix of the chunks, each   *)
(* already linked to the one before it.                                    *)
(***************************************************************************)
StoredChunks == split(encode(reply.item), DescriptionLimit)

\* number of events the calendar held before the store
StoreBase == IF calendar # <<>> /\ calendar[1] = JunkEvent THEN 1 ELSE 0

ChainLink(i) ==
    [summary |-> IF i = 1 THEN reply.name ELSE EventId(StoreBase + i - 1),
     description |-> StoredChunks[i],
     location |-> ToString(i - 1)]

C30_StoreChain ==
    reply.op = "store" =>
        /\ Len(StoredChunks) >= 1
        /\ Len(calendar) - StoreBase \in 0..Len(StoredChunks)
        /\ \A i \in 1..(Len(calendar) - StoreBase) :
              calendar[StoreBase + i] = ChainLink(i)
        /\ reply.status = "err" => Len(calendar) - StoreBase < Len(StoredChunks)
        /\ reply.status = "ok" =>
              /\ reply.entry.name = reply.name
              /\ Len(reply.entry.events) = Len(StoredChunks)
              /\ \A i \in 1..Len(StoredChunks) :
                    /\ reply.entry.events[i] \in EventIds(calendar)
                    /\ EventIndex(calendar, reply.entry.events[i]) = StoreBase + i
                    /\ get_event_by_id(calendar, reply.entry.events[i]).details
                          = ChainLink(i)
                    /\ i > 1 =>
                          get_event_by_id(calendar, reply.entry.events[i]).details.summary
                            = reply.entry.events[i - 1]

\* a stored value of three chunks in a calendar that held an event before
C30_Witness ==
    /\ reply.op = "store"
    /\ reply.status = "ok"
    /\ StoreBase = 1
    /\ Len(reply.entry.events) >= 3

(***************************************************************************)
(* C31: given the tail id and the sentinel of a chain that a successful    *)
(* store produced, download fetches exactly the chain's k events, from the *)
(* tail to the head, and returns them in upload order; the sentinels the   *)
(* filesystem passes ("root event" for a mapping, the object's name for an *)
(* object) are none of the chain's event ids.                              *)
(***************************************************************************)
\* the sentinel the cache passes with a value
SentinelOf(item) == IF item.T = "Map" THEN "root event" ELSE item.obj.name

ChainIds(entry) == {entry.events[i] : i \in 1..Len(entry.events)}

\* the walk over the chain of entry when its first `calls` fetches succeed
Walk(entry, calls) ==
    download(calendar, calls, Last(entry.events), entry.name)

WalkIsChain(entry) ==
    /\ Walk(entry, NoFault).status = "ok"
    /\ CallsOf(Walk(entry, NoFault)) = Len(entry.events)
    /\ [i \in 1..Len(Walk(entry, NoFault).events) |->
           Walk(entry, NoFault).events[i].id] = entry.events
    /\ \A j \in 0..(Len(entry.events) - 1) :
          /\ Walk(entry, j).status = "err"
          /\ [i \in 1..j |-> Walk(entry, j).events[i].id]
                = SubSeq(entry.events, Len(entry.events) - j + 1, Len(entry.events))

C31_DownloadWalk ==
    (/\ reply.op = "store"
     /\ reply.status = "ok"
     /\ reply.name = SentinelOf(reply.item))
    => /\ reply.name \notin ChainIds(reply.entry)
       /\ WalkIsChain(reply.entry)

(***************************************************************************)
(* C32: get of an inode that is no key of the inode map returns absent and *)
(* makes no calendar call; get of a mapped inode whose object is not in    *)
(* the object table retrieves it with one walk of its chain and puts it in *)
(* the table; get of a mapped inode whose object is in the table returns   *)
(* that object and makes no calendar call.  No operation of a process      *)
(* removes or replaces an object of the table, so every later get of the   *)
(* inode is of the last kind until an insert remaps the inode.             *)
(***************************************************************************)
Resident(ino) == ino \in DOMAIN ino_to_id /\ ino_to_id[ino] \in DOMAIN id_to_obj

C32_Step ==
    /\ (phase = "c_ready" /\ reply'.op = "get") =>
          /\ reply'.ino \notin DOMAIN ino_to_id =>
                /\ reply'.status = "ok" /\ ~reply'.found
                /\ CallsOf(GetNow(reply'.ino)) = 0
                /\ faults' = faults
                /\ id_to_obj' = id_to_obj
          /\ Resident(reply'.ino) =>
                /\ reply'.status = "ok" /\ reply'.found
                /\ reply'.item = id_to_obj[ino_to_id[reply'.ino]]
                /\ CallsOf(GetNow(reply'.ino)) = 0
                /\ faults' = faults
                /\ id_to_obj' = id_to_obj
          /\ (reply'.ino \in DOMAIN ino_to_id /\ ~Resident(reply'.ino)) =>
                /\ CallsOf(GetNow(reply'.ino)) = Len(ino_to_id[reply'.ino].events)
                /\ reply'.status # "ok" => id_to_obj' = id_to_obj
                /\ reply'.status = "ok" =>
                      /\ reply'.found
                      /\ id_to_obj' = Put(id_to_obj, ino_to_id[reply'.ino], reply'.item)
                      /\ CallsOf(GetNext(reply'.ino)) = 0
                      /\ GetNext(reply'.ino).obj = reply'.item
          /\ ino_to_id' = ino_to_id
    /\ (phase = "c_ready" /\ reply'.op \in {"get", "insert", "new_inode"}) =>
          \A id \in DOMAIN id_to_obj :
              id \in DOMAIN id_to_obj' /\ id_to_obj'[id] = id_to_obj[id]

C32_GetFetchesOnce == [][C32_Step]_vars

\* the root chains written after the chain of an inode, up to the root in use
RootsSince(ino) ==
    {j \in 1..Len(calendar) :
        /\ j > EventIndex(calendar, Last(ino_to_id[ino].events))
        /\ j <= EventIndex(calendar, get_raw_id(root_event))
        /\ calendar[j].summary = ROOT_EVENT_NAME}

\* a get that fetched: the one object of the table is the object get returned,
\* and no insert of this process put it there, since none failed and the root
\* in use is not the one written with the object's chain
C32_Witness ==
    /\ phase = "c_ready"
    /\ reply.op = "get" /\ reply.status = "ok" /\ reply.found
    /\ hist.failed = 0
    /\ DOMAIN id_to_obj = {ino_to_id[reply.ino]}
    /\ Cardinality(RootsSince(reply.ino)) >= 2

(***************************************************************************)
(* C33: every setattr that asks for chmod (mode set) or chown (uid or gid  *)
(* set) replies to the kernel: the callback does not stop for ever, or     *)
(* panic, at the write lock write_inode takes on the object whose read     *)
(* guard setattr still holds.                                              *)
(***************************************************************************)
C33_SetattrReplies ==
    (/\ reply.op = "setattr"
     /\ (reply.mode # None \/ reply.uid # None \/ reply.gid # None))
    => reply.errno \notin {"HANG", "PANIC"}

(***************************************************************************)
(* C34: recover, given a root id this program has written, the root of the *)
(* empty mapping that WhenFSCache::new writes included, returns a cache or *)
(* an error value and never panics.                                        *)
(***************************************************************************)
C34_RecoverNeverPanics ==
    (reply.op = "recover" /\ \E root \in hist.roots : root.id = reply.root)
    => reply.status \in {"ok", "err"}

(***************************************************************************)
(* C35: an insert that returns an error, at the upload of the object or at *)
(* the rewrite of the root, leaves the cache as it was before the call:    *)
(* the chain of the inode, the recovery id and the object get returns for  *)
(* the inode are unchanged.                                                *)
(***************************************************************************)
C35_Step ==
    (phase = "c_ready" /\ reply'.op = "insert" /\ reply'.status = "err") =>
        /\ ino_to_id' = ino_to_id
        /\ get_recovery_id(CacheNow)' = get_recovery_id(CacheNow)
        /\ GetNext(reply'.ino).found = GetNow(reply'.ino).found
        /\ GetNext(reply'.ino).obj = GetNow(reply'.ino).obj

C35_FailedInsertChangesNothing == [][C35_Step]_vars

(***************************************************************************)
(* C36: every root chain the cache has held, those written during          *)
(* bootstrap included, decodes to a mapping in which the entries of every  *)
(* directory refer only to inodes of that same mapping.                    *)
(***************************************************************************)
\* the object the chain of ino decodes to in the mapping of a root
StoredObject(root, ino) == retrieve(calendar, NoFault, root.map[ino], "Obj")

C36_RootsHaveNoDanglingEntry ==
    \A root \in hist.roots :
        root.status = "ok" =>
            \A ino \in DOMAIN root.map :
                /\ StoredObject(root, ino).status = "ok"
                /\ \A e \in StoredObject(root, ino).value.obj.entries :
                      e.ino \in DOMAIN root.map

(***************************************************************************)
(* C37: in every directory of a mounted filesystem no two entries have the *)
(* same inode and no two the same name; a create on a name the parent      *)
(* already has replies EEXIST and leaves the parent's entries as they      *)
(* were, and the entry a successful create adds to the parent carries an   *)
(* inode that no entry of the parent had.                                  *)
(***************************************************************************)
C37_Distinct ==
    phase = "mounted" =>
        \A d \in MappedDirs(ino_to_id, CacheNow, calendar) :
            \A e1, e2 \in GetNow(d).obj.entries :
                (e1.ino = e2.ino \/ e1.name = e2.name) => e1 = e2

C37_Step ==
    (phase = "mounted" /\ reply'.op = "create") =>
        /\ reply'.errno = "EEXIST" =>
              GetNext(reply'.parent).obj.entries = GetNow(reply'.parent).obj.entries
        /\ reply'.errno = "OK" =>
              /\ \A e \in GetNow(reply'.parent).obj.entries : e.ino # reply'.ino
              /\ GetNext(reply'.parent).obj.entries =
                    GetNow(reply'.parent).obj.entries
                      \cup {[ino |-> reply'.ino, file_type |-> reply'.attr.kind,
                              name |-> reply'.name]}

C37_EntriesDistinct == [](C37_Distinct) /\ [][C37_Step]_vars

(***************************************************************************)
(* C38: for every regular file other than inode 2, in every state of a     *)
(* mounted filesystem, the size attribute equals the length of the data;   *)
(* create makes a file of size 0 without data and every successful write   *)
(* leaves the written file with size = length of data.                     *)
(***************************************************************************)
MappedFiles(map, c, cal) ==
    {ino \in DOMAIN map : get(c, cal, NoFault, ino).obj.tag = "File"}

C38_Sized ==
    phase = "mounted" =>
        \A ino \in MappedFiles(ino_to_id, CacheNow, calendar) \ {FUSE_ROOT_ID + 1} :
            GetNow(ino).obj.attr.size = Len(GetNow(ino).obj.data)

C38_Step ==
    /\ (phase = "mounted" /\ reply'.op = "create" /\ reply'.errno = "OK"
        /\ reply'.attr.kind = RegularFile) =>
          /\ reply'.attr.size = 0
          /\ GetNext(reply'.ino).obj.attr.size = 0
          /\ GetNext(reply'.ino).obj.data = <<>>
    /\ (phase = "mounted" /\ reply'.op = "write" /\ reply'.errno = "OK") =>
          GetNext(reply'.ino).obj.attr.size = Len(GetNext(reply'.ino).obj.data)

C38_SizeIsDataLength == [](C38_Sized) /\ [][C38_Step]_vars

\* a file that a write made longer, then read back from the calendar by a
\* later process
C38_Witness ==
    /\ phase = "mounted"
    /\ reply.op = "mount"
    /\ \E ino \in MappedFiles(ino_to_id, CacheNow, calendar) \ {FUSE_ROOT_ID + 1} :
          /\ GetNow(ino).obj.attr.size > 0
          /\ GetNow(ino).obj.attr.size = Len(GetNow(ino).obj.data)

(***************************************************************************)
(* C39: a mount over a recovered cache makes no insert: when the recovered *)
(* mapping holds inode 1, WhenFS::new creates no calendar event and the    *)
(* recovery id is the root id that was given to recover; it stays that id  *)
(* until a mutating callback succeeds, so the first callback of the        *)
(* process leaves it unchanged unless it is a create, write or setattr     *)
(* that replies success.                                                   *)
(***************************************************************************)
MountedFrom(r) == r.op = "mount" /\ r.name # "" /\ r.errno = "OK"

SuccessfulMutation(r) == r.op \in {"create", "write", "setattr"} /\ r.errno = "OK"

C39_Step ==
    /\ MountedFrom(reply') =>
          /\ FUSE_ROOT_ID \in DOMAIN ino_to_id'
          /\ calendar' = calendar
          /\ get_recovery_id(CacheNow)'.root_id = reply'.name
          /\ ino_to_id' = decoded_root(calendar, reply'.name).value.map
    /\ (phase = "mounted" /\ MountedFrom(reply) /\ phase' = "mounted"
        /\ reply'.op # "mount" /\ ~SuccessfulMutation(reply')) =>
          get_recovery_id(CacheNow)'.root_id = reply.name

C39_RecoveredMountInsertsNothing == [][C39_Step]_vars

(***************************************************************************)
(* SpecAccess: the access callback on a freshly mounted filesystem in      *)
(* which one file has been created with a drawn mode.  The requesters are  *)
(* root, the file's owner and members and non-members of its group; the    *)
(* masks are all combinations of R_OK, W_OK and X_OK, and F_OK.            *)
(***************************************************************************)
MaxAccessId == 2
AccessModes == {0, 1, 8, 64, 6 * 64 + 4 * 8 + 4, 6 * 64 + 4 * 8, 6 * 64 + 4,
                4 * 64 + 6 * 8, 4 * 64 + 6, 6 * 8 + 4, 4 * 8 + 6,
                7 * 64 + 5 * 8 + 1}

AccessInit ==
    \E mode \in AccessModes :
    \E m \in {main(<<>>, NoFault, "")} :
    \E r \in {create(m.fs, m.calendar, NoFault, Owner, FUSE_ROOT_ID, "a",
                      S_IFREG + mode, O_RDWR)} :
        /\ phase = "mounted"
        /\ calendar = r.calendar
        /\ faults = 0
        /\ ino_to_id = r.fs.cache.ino_to_id
        /\ id_to_obj = r.fs.cache.id_to_obj
        /\ inode_count = r.fs.cache.inode_count
        /\ root_event = r.fs.cache.root_event
        /\ file_handle_count = r.fs.file_handle_count
        /\ reply = r.out
        /\ hist = NoHist

Access ==
    /\ phase = "mounted"
    /\ ~reply.quiet
    /\ \E req \in [uid : 0..MaxAccessId, gid : 0..MaxAccessId],
          ino \in FUSE_ROOT_ID..(FUSE_ROOT_ID + 2),
          mask \in F_OK..(R_OK + W_OK + X_OK) :
        \E budget \in Budgets(CallsOf(access(FsNow, calendar, NoFault, req, ino,
                                              mask))) :
          Apply(access(FsNow, calendar, budget, req, ino, mask), FALSE)

SpecAccess == AccessInit /\ [][Access]_vars

AccessReplied == reply.op = "access" /\ reply.errno \in {"OK", "EACCES"}

\* C15: for a requester with uid 0 access allows F_OK and every mask made
\* only of R_OK and W_OK whatever the file mode, and allows a mask containing
\* X_OK iff one of the three execute bits of the file mode is set.
C15_RootAccess ==
    (AccessReplied /\ reply.req.uid = 0)
    => ((reply.errno = "OK")
        <=> (HasBit(reply.mask, X_OK) => AnyExecBit(reply.attr.perm)))

\* the permission triple check_access is to pick for a requester other than
\* root: owner, else group, else other
TripleFor(req, attr) ==
    IF req.uid = attr.uid THEN (attr.perm \div 64) % 8
    ELSE IF req.gid = attr.gid THEN (attr.perm \div 8) % 8
    ELSE attr.perm % 8

\* C16: for a requester with uid # 0 access replies success iff every bit of
\* the mask is set in the one triple chosen (owner bits if the uids agree,
\* else group bits if the gids agree, else the bits for others), and EACCES
\* otherwise.
C16_TripleAccess ==
    (AccessReplied /\ reply.req.uid # 0)
    => ((reply.errno = "OK")
        <=> \A bit \in {R_OK, W_OK, X_OK} :
               HasBit(reply.mask, bit)
               => HasBit(TripleFor(reply.req, reply.attr), bit))

C16_Witness ==
    /\ reply.op = "access"
    /\ reply.errno = "EACCES"
    /\ reply.req.uid # 0
    /\ reply.req.uid # reply.attr.uid
    /\ reply.req.gid = reply.attr.gid
    /\ HasBit(reply.attr.perm \div 64, R_OK)
    /\ HasBit(reply.attr.perm, R_OK)
    /\ reply.mask = R_OK

(***************************************************************************)
(* SpecReaddir: the readdir callback on a freshly mounted filesystem in    *)
(* which no object, a directory, or a directory and a file have been       *)
(* created under the root.  The order in which a directory's HashSet       *)
(* yields its entries is not specified: it is drawn for each call, and the *)
(* pages of one listing are taken in the order drawn for it.               *)
(***************************************************************************)
MaxDirOffset == 5
MaxRoom == 3

\* the orders in which a set of entries can be yielded
Orders(entries) ==
    {order \in [1..Cardinality(entries) -> entries] :
        \A i, j \in 1..Cardinality(entries) : order[i] = order[j] => i = j}

ReaddirInit ==
    \E made \in 0..2 :
    \E m \in {main(<<>>, NoFault, "")} :
    \E d \in {IF made >= 1
               THEN create(m.fs, m.calendar, NoFault, Owner, FUSE_ROOT_ID, "d",
                           S_IFDIR + 493, O_RDONLY)
               ELSE Done(m.fs, m.calendar, NoFault, Out("mount", "OK"), <<>>)} :
    \E r \in {IF made >= 2
               THEN create(d.fs, d.calendar, NoFault, Owner, FUSE_ROOT_ID, "a",
                           S_IFREG + 420, O_RDWR)
               ELSE d} :
        /\ phase = "mounted"
        /\ calendar = r.calendar
        /\ faults = 0
        /\ ino_to_id = r.fs.cache.ino_to_id
        /\ id_to_obj = r.fs.cache.id_to_obj
        /\ inode_count = r.fs.cache.inode_count
        /\ root_event = r.fs.cache.root_event
        /\ file_handle_count = r.fs.file_handle_count
        /\ reply = r.out
        /\ hist = NoHist

Readdir ==
    /\ phase = "mounted"
    /\ ~reply.quiet
    /\ \E ino \in FUSE_ROOT_ID..inode_count, offset \in (0 - 1)..MaxDirOffset,
          room \in 1..MaxRoom :
        \E order \in Orders(GetNow(ino).obj.entries) :
        \E budget \in Budgets(CallsOf(readdir(FsNow, calendar, NoFault, ino, offset,
                                               order, room))) :
          Apply(readdir(FsNow, calendar, budget, ino, offset, order, room), FALSE)

SpecReaddir == ReaddirInit /\ [][Readdir]_vars

\* the listing a client obtains with buffers of `room` entries: it asks from
\* offset 0 and again from the offset of the last entry it was given, until
\* a reply is empty
RECURSIVE Pages(_, _, _)
Pages(order, offset, room) ==
    LET page == readdir_loop(order, offset, 0, room, <<>>)
    IN IF page = <<>> THEN <<>>
       ELSE page \o Pages(order, Last(page).offset, room)

\* C27: readdir(ino, offset) on a directory emits the entries at positions
\* offset, offset + 1, ... of the order in which the directory yields its
\* entries, the entry at position p tagged with p + 1, until the buffer is
\* full; a client that resumes at the last offset it was given is therefore
\* given every entry exactly once, in that order; readdir on a file replies
\* ENOTDIR.
C27_ReaddirPages ==
    (reply.op = "readdir" /\ reply.offset >= 0 /\ GetNow(reply.ino).found) =>
        IF GetNow(reply.ino).obj.tag # "Dir"
        THEN reply.errno = "ENOTDIR" /\ reply.entries = <<>>
        ELSE LET order == reply.order
                 emitted == Max(0, Min(reply.room, Len(order) - reply.offset))
                 listing == Pages(order, 0, reply.room)
             IN /\ reply.errno = "OK"
                /\ reply.entries =
                      [i \in 1..emitted |->
                          Added(order[reply.offset + i], reply.offset + i)]
                /\ Len(listing) = Len(order)
                /\ \A p \in 1..Len(order) : listing[p] = Added(order[p], p)
                /\ {order[p] : p \in 1..Len(order)} = GetNow(reply.ino).obj.entries

\* a listing of the root with four entries resumed at offset 1: the buffer
\* takes two entries and the fourth is left for the next call
C27_Witness ==
    /\ reply.op = "readdir"
    /\ reply.errno = "OK"
    /\ reply.ino = FUSE_ROOT_ID
    /\ Len(reply.order) = 4
    /\ reply.offset = 1
    /\ reply.room = 2
    /\ Len(reply.entries) = 2
    /\ reply.entries[2].offset = 3

(***************************************************************************)
(* SpecZip: mod zip alone.  A text over a two-letter alphabet and a chunk  *)
(* size are drawn, the text is split and the chunks are joined.            *)
(***************************************************************************)
MaxTextLen == 5
MaxChunk == 6

RECURSIVE Texts(_)
Texts(n) ==
    IF n = 0 THEN {""}
    ELSE {""} \cup {c \o t : c \in {"a", "b"}, t \in Texts(n - 1)}

ZipInit ==
    /\ phase = "zip"
    /\ calendar = <<>>
    /\ faults = 0
    /\ NoCache
    /\ \E text \in Texts(MaxTextLen), chunk_size \in 1..MaxChunk :
          reply = [op |-> "input", text |-> text, chunk_size |-> chunk_size]
    /\ hist = NoHist

ZipSplit ==
    /\ phase = "zip"
    /\ reply.op = "input"
    /\ reply' = [op |-> "split", text |-> reply.text,
                 chunk_size |-> reply.chunk_size,
                 chunks |-> split(reply.text, reply.chunk_size)]
    /\ UNCHANGED <<phase, calendar, faults, ino_to_id, id_to_obj, inode_count,
                   root_event, file_handle_count, hist>>

ZipJoin ==
    /\ phase = "zip"
    /\ reply.op = "split"
    /\ reply' = [op |-> "zip", text |-> reply.text, chunk_size |-> reply.chunk_size,
                 chunks |-> reply.chunks, joined |-> zip(reply.chunks)]
    /\ UNCHANGED <<phase, calendar, faults, ino_to_id, id_to_obj, inode_count,
                   root_event, file_handle_count, hist>>

SpecZip == ZipInit /\ [][ZipSplit \/ ZipJoin]_vars

\* C28: for every text s and chunk size n >= 1, split(s, n) is
\* ceil(len(s) / n) chunks (none for the empty text), chunk i being the n
\* bytes of s from position (i - 1) * n on, the last one the bytes that
\* remain, at least one and at most n; and zip of the chunks is s.
C28_SplitZipRoundTrip ==
    /\ reply.op \in {"split", "zip"} =>
          LET text == reply.text
              n == reply.chunk_size
              k == (Len(text) + n - 1) \div n
          IN /\ Len(reply.chunks) = k
             /\ \A i \in 1..k :
                   reply.chunks[i] = SubSeq(text, (i - 1) * n + 1, Min(i * n, Len(text)))
             /\ \A i \in 1..(k - 1) : Len(reply.chunks[i]) = n
             /\ k > 0 => Len(reply.chunks[k]) \in 1..n
             /\ (text = "") = (reply.chunks = <<>>)
    /\ reply.op = "zip" => reply.joined = reply.text

\* a text of five bytes split into two chunks of two bytes and a last one of
\* one byte, and joined
C28_Witness ==
    /\ reply.op = "zip"
    /\ Len(reply.text) = 5
    /\ reply.chunk_size = 2
    /\ Len(reply.chunks) = 3
    /\ Len(reply.chunks[3]) = 1
    /\ reply.joined = reply.text

(***************************************************************************)
(* SpecHandle: new_file_handle and check_file_handle_write on the 64-bit   *)
(* word.  A u64 is the record of its two top bits (top = 2 * bit 63 +      *)
(* bit 62) and its 62 low bits (low); MaxLow stands for 2^62 - 1, the      *)
(* value of low from which an increment carries into bit 62.  The handle   *)
(* counter starts at any value, a handle is made, and the write check is   *)
(* applied to it.                                                          *)
(***************************************************************************)
HandleInit ==
    /\ phase = "handle"
    /\ calendar = <<>>
    /\ faults = 0
    /\ ino_to_id = <<>>
    /\ id_to_obj = <<>>
    /\ inode_count = 0
    /\ root_event = NoEntry
    /\ file_handle_count \in {U64(top, low) : top \in 0..3, low \in 0..MaxLow}
    /\ reply = [op |-> "none"]
    /\ hist = NoHist

NewHandle ==
    /\ phase = "handle"
    /\ reply.op = "none"
    /\ \E rd, wr \in BOOLEAN :
          LET r == new_file_handle_u64(file_handle_count, rd, wr)
          IN /\ file_handle_count' = r.count
             /\ phase' = IF r.status = "ok" THEN phase ELSE "dead"
             /\ reply' = [op |-> "new_file_handle", status |-> r.status,
                          read |-> rd, write |-> wr, fh |-> r.fh]
    /\ UNCHANGED <<calendar, faults, ino_to_id, id_to_obj, inode_count, root_event,
                   hist>>

CheckHandle ==
    /\ phase = "handle"
    /\ reply.op = "new_file_handle"
    /\ reply' = [reply EXCEPT !.op = "check_file_handle_write",
                               !.status = IF check_file_handle_write_u64(reply.fh)
                                          THEN "ok" ELSE "EACCES"]
    /\ UNCHANGED <<phase, calendar, faults, ino_to_id, id_to_obj, inode_count,
                   root_event, file_handle_count, hist>>

SpecHandle == HandleInit /\ [][NewHandle \/ CheckHandle]_vars

(***************************************************************************)
(* C40: for every value of the handle counter that passes the assertion of *)
(* new_file_handle the handle returned has bit 62 set exactly when write   *)
(* was requested and bit 63 set exactly when read was requested, and a     *)
(* handle requested without write does not pass check_file_handle_write.   *)
(***************************************************************************)
C40_HandleBits ==
    /\ (reply.op = "new_file_handle" /\ reply.status = "ok") =>
          /\ Meets(reply.fh, FILE_HANDLE_WRITE_BIT) = reply.write
          /\ Meets(reply.fh, FILE_HANDLE_READ_BIT) = reply.read
    /\ (reply.op = "check_file_handle_write" /\ ~reply.write) =>
          reply.status = "EACCES"

====
